---- MODULE Spec2Model ----
(***************************************************************************)
(* The Copycat chess engine: the UCI command loops of its builds and the   *)
(* move selectors behind them.                                             *)
(*                                                                         *)
(*   build = "core"  CopycatUCI (src/src/core/uci_interface.py) driving    *)
(*                   CopycatChessEngine and SearchManager of               *)
(*                   builds/v1.0_copycat_analyzer                          *)
(*   build = "root"  UCIEngine (src/uci_interface.py)                      *)
(*   build = "v07"   CopycatEngine (builds/v0.7/copycat_v7_uci.py)         *)
(*   build = "v10"   CopycatUCIEngine, CopycatChessEngine and              *)
(*                   SearchManager of builds/v1.0                          *)
(*   build = "v3"    CopycatEngineV3 (src/src/core/engine_v3.py) driven by *)
(*                   its own test_engine loop                              *)
(*                                                                         *)
(* The chess rules (python-chess) are outside the repository: a position   *)
(* is a base position and the stack of moves pushed on it, and the legal   *)
(* moves of a position are read from a small table.                        *)
(***************************************************************************)
EXTENDS Integers, Sequences, FiniteSets, TLC

\* ----------------------------------------------------------------------
\* State
\* ----------------------------------------------------------------------
VARIABLES
    build,             \* which program runs
    env,               \* what the process found at start-up: analysis data, AI modules
    running,           \* the command loop has not ended
    board,             \* self.board
    tc,                \* the time-control and search parameters self.movetime, self.wtime, ...
    debug_mode,        \* self.debug_mode (self.debug in builds/v0.7)
    current_phase,     \* engine.current_phase
    opening_detected,  \* engine.opening_detected, "None" until detected
    move_count,        \* engine.move_count (moves_played of CopycatEngineV3)
    initialized,       \* self.initialized of UCIEngine and CopycatEngine
    ai,                \* self.ai, "None" or the loaded model
    pc,                \* "idle": the loop waits for a line; "searching": go is between select_move and its reply
    sleepLeft,         \* milliseconds go still sleeps before replying
    pending,           \* the move select_move returned to go
    stopPending,       \* the host sent stop while go was running; the line waits on stdin
    lastCmd,           \* the command word handled last
    lastArgs,          \* its arguments
    out,               \* the lines printed while handling it
    scored,            \* the moves the command handled last computed a score for
    failed,            \* a scorer raised while the command handled last selected a move
    clock              \* milliseconds of wall-clock time since the command handled last was read

vars == <<build, env, running, board, tc, debug_mode, current_phase, opening_detected,
          move_count, initialized, ai, pc, sleepLeft, pending, stopPending,
          lastCmd, lastArgs, out, scored, failed, clock>>

\* ----------------------------------------------------------------------
\* Bounds of the model
\* ----------------------------------------------------------------------
MaxPly == 3        \* deepest move stack a board reaches
TickMs == 500      \* milliseconds of sleep that one SleepTick step covers

\* ----------------------------------------------------------------------
\* Optional values (Python None)
\* ----------------------------------------------------------------------
None == {}
Some(v) == {v}
IsNone(o) == o = {}
Val(o) == CHOOSE v \in o : TRUE

Min(a, b) == IF a <= b THEN a ELSE b
Max(a, b) == IF a >= b THEN a ELSE b

\* ----------------------------------------------------------------------
\* The rules engine, as far as the engine's code consults it
\* ----------------------------------------------------------------------
WhiteMoves == <<"e2e4", "d2d4">>
BlackMoves == <<"e7e5", "c7c6">>

\* chess.Board(): the standard start position with an empty move stack
StartBoard == [base |-> "startpos", stack |-> <<>>]

\* positions a FEN string of the model names
FenIds == {"fenMate", "fenForced", "fenEnd", "fenMid"}

\* side to move of a base position (TRUE is chess.WHITE)
BaseTurn(base) == IF base \in {"fenMate", "fenEnd"} THEN FALSE ELSE TRUE

\* board.turn
Turn(b) == IF Len(b.stack) % 2 = 0 THEN BaseTurn(b.base) ELSE ~BaseTurn(b.base)

\* list(board.legal_moves), in generation order
LegalMoves(b) ==
    IF b.stack = <<>> /\ b.base = "fenMate" THEN <<>>
    ELSE IF b.stack = <<>> /\ b.base = "fenForced" THEN <<"e1d1">>
    ELSE IF b.stack = <<>> /\ b.base = "fenEnd" THEN <<"e8d8", "e8f8">>
    ELSE IF b.stack = <<>> /\ b.base = "fenWide" THEN <<"a2a3", "b2b3", "c2c3", "d2d3">>
    ELSE IF Turn(b) THEN WhiteMoves ELSE BlackMoves

SeqToSet(s) == {s[i] : i \in 1..Len(s)}
IsLegal(b, m) == m \in SeqToSet(LegalMoves(b))

\* board.push(move)
Push(b, m) == [b EXCEPT !.stack = Append(@, m)]

\* chess.Move.from_uci(token) raises ValueError on a token that is no move
WellFormedMove(tok) == tok \in {"e2e4", "d2d4", "g1f3", "e7e5", "c7c6", "e1d1", "e8d8", "e8f8", "a1a1"}

\* material and rights of a position: non-king pieces, queens, any castling right
PieceCount(b) == CASE b.base = "startpos" -> 30
                   [] b.base = "fenMid" -> 20
                   [] b.base = "fenMate" -> 12
                   [] b.base = "fenForced" -> 6
                   [] OTHER -> 2
QueenCount(b) == IF b.base \in {"startpos", "fenMid", "fenMate"} THEN 2 ELSE 0
CastlingRights(b) == b.base = "startpos" /\ Len(b.stack) < 3
BaseFullmove(base) == IF base = "startpos" THEN 1 ELSE 40
\* board.fullmove_number: incremented after each move of Black
FullmoveNumber(b) ==
    BaseFullmove(b.base) + ((Len(b.stack) + (IF BaseTurn(b.base) THEN 0 ELSE 1)) \div 2)

\* ----------------------------------------------------------------------
\* Phase classifier and opening detection of the engine
\* ----------------------------------------------------------------------
\* the classifier with the move limit read as "fewer than 15"
PhaseOfBeforeMove15(pieces, queens, castling, fullmove) ==
    IF pieces >= 14 /\ castling /\ fullmove < 15 THEN "opening"
    ELSE IF pieces <= 10 \/ queens = 0 THEN "endgame"
    ELSE "middlegame"

\* the classifier with the endgame test made first
PhaseOfEndgameFirst(pieces, queens, castling, fullmove) ==
    IF pieces <= 10 \/ queens = 0 THEN "endgame"
    ELSE IF pieces >= 14 /\ castling /\ fullmove <= 15 THEN "opening"
    ELSE "middlegame"

\* CopycatChessEngine.detect_game_phase on (piece count, queen count,
\* castling rights, full-move number)
PhaseOf(pieces, queens, castling, fullmove) ==
    IF pieces >= 14 /\ castling /\ fullmove <= 15 THEN "opening"
    ELSE IF pieces <= 10 \/ queens = 0 THEN "endgame"
    ELSE "middlegame"

detect_game_phase(b) ==
    PhaseOf(PieceCount(b), QueenCount(b), CastlingRights(b), FullmoveNumber(b))

\* CopycatChessEngine.detect_opening: a name read off the first moves of
\* the move stack, "Unknown" when nothing matches (never None)
detect_opening(b) ==
    LET h == b.stack
        n == Len(h)
    IN  IF n >= 2 /\ h[1] = "e2e4" /\ h[2] = "c7c6" THEN "Caro-Kann"
        ELSE IF n >= 2 /\ h[1] = "e2e4" /\ h[2] = "d7d5" THEN "Scandinavian"
        ELSE IF n >= 3 /\ h[1] = "e2e4" /\ h[2] = "e7e5" /\ h[3] = "g1f3" THEN "Ruy Lopez"
        ELSE IF n >= 3 /\ h[1] = "e2e4" /\ h[2] = "e7e5" /\ h[3] = "f1c4" THEN "Italian Game"
        ELSE IF n >= 3 /\ h[1] = "d2d4" /\ h[2] = "d7d5" /\ h[3] = "c2c4" THEN "Queen's Gambit"
        ELSE IF n >= 4 /\ h[1] = "d2d4" /\ h[2] = "g8f6" /\ h[3] = "c2c4" /\ h[4] = "g7g6"
             THEN "King's Indian"
        ELSE IF n >= 3 /\ h[1] = "d2d4" /\ "c1f4" \in {h[1], h[2], h[3]} THEN "London"
        ELSE IF n >= 3 /\ h[1] = "e2e4" /\ h[2] = "e7e5" /\ h[3] = "b1c3" THEN "Vienna"
        ELSE "Unknown"

\* ----------------------------------------------------------------------
\* go arguments of CopycatUCI
\* ----------------------------------------------------------------------
\* int(token): the value of a decimal token; any other token raises ValueError
DecimalTokens ==
    {<<"0", 0>>, <<"1", 1>>, <<"2", 2>>, <<"100", 100>>, <<"900", 900>>, <<"1000", 1000>>,
     <<"3000", 3000>>}
IsInt(tok) == \E d \in DecimalTokens : d[1] = tok
IntOf(tok) == (CHOOSE d \in DecimalTokens : d[1] = tok)[2]

\* the search parameters as parse_go_params resets them
NoParams ==
    [search_moves |-> <<>>, ponder |-> FALSE, wtime |-> None, btime |-> None,
     winc |-> None, binc |-> None, movestogo |-> None, depth |-> None,
     nodes |-> None, mate |-> None, movetime |-> None, infinite |-> FALSE]

NumericKeys == {"wtime", "btime", "winc", "binc", "movestogo", "depth", "nodes", "mate", "movetime"}

\* assignment self.<key> = v
SetParam(p, key, v) ==
    CASE key = "wtime" -> [p EXCEPT !.wtime = Some(v)]
      [] key = "btime" -> [p EXCEPT !.btime = Some(v)]
      [] key = "winc" -> [p EXCEPT !.winc = Some(v)]
      [] key = "binc" -> [p EXCEPT !.binc = Some(v)]
      [] key = "movestogo" -> [p EXCEPT !.movestogo = Some(v)]
      [] key = "depth" -> [p EXCEPT !.depth = Some(v)]
      [] key = "nodes" -> [p EXCEPT !.nodes = Some(v)]
      [] key = "mate" -> [p EXCEPT !.mate = Some(v)]
      [] OTHER -> [p EXCEPT !.movetime = Some(v)]

\* the while loop of parse_go_params from token i on; exc names the
\* exception that leaves the loop, with the parameters assigned so far
RECURSIVE ParseGoFrom(_, _, _, _)
RECURSIVE ParseSearchMoves(_, _, _, _)
ParseSearchMoves(b, args, i, p) ==
    IF i > Len(args) \/ args[i] = "ponder" THEN ParseGoFrom(b, args, i, p)
    ELSE IF ~WellFormedMove(args[i]) THEN ParseGoFrom(b, args, i, p)
    ELSE ParseSearchMoves(b, args, i + 1,
            IF IsLegal(b, args[i])
            THEN [p EXCEPT !.search_moves = Append(@, args[i])] ELSE p)

ParseGoFrom(b, args, i, p) ==
    IF i > Len(args) THEN [p |-> p, exc |-> "none"]
    ELSE IF args[i] = "searchmoves" THEN ParseSearchMoves(b, args, i + 1, p)
    ELSE IF args[i] = "ponder" THEN ParseGoFrom(b, args, i + 1, [p EXCEPT !.ponder = TRUE])
    ELSE IF args[i] \in NumericKeys THEN
        IF i + 1 > Len(args) THEN ParseGoFrom(b, args, i + 2, p)
        ELSE IF ~IsInt(args[i + 1]) THEN [p |-> p, exc |-> "ValueError"]
        ELSE ParseGoFrom(b, args, i + 2, SetParam(p, args[i], IntOf(args[i + 1])))
    ELSE IF args[i] = "infinite" THEN ParseGoFrom(b, args, i + 1, [p EXCEPT !.infinite = TRUE])
    ELSE ParseGoFrom(b, args, i + 1, p)

\* parse_go_params without the reset of lines 169-181: the loop starts from
\* the parameters the earlier go left in self
parse_go_params_keeping(b, args) == ParseGoFrom(b, args, 1, tc)

\* parse_go_params: every parameter is reset, then the tokens are read
parse_go_params(b, args) == ParseGoFrom(b, args, 1, NoParams)

\* ----------------------------------------------------------------------
\* Think time of CopycatUCI
\* ----------------------------------------------------------------------
\* int(x) for the quotient n/d with d > 0: truncation toward zero
TruncDiv(n, d) == IF n >= 0 THEN n \div d ELSE -((-n) \div d)

\* CopycatChessEngine.calculate_move_timing_score, in tenths; phase is the
\* engine's current_phase as the last select_move call left it
calculate_move_timing_score(b, phase, timing_data) ==
    IF ~timing_data THEN 5
    ELSE IF phase = "opening" THEN 3
    ELSE IF phase = "middlegame" THEN 7
    ELSE IF phase = "endgame" THEN (IF PieceCount(b) + 2 <= 6 THEN 4 ELSE 6)
    ELSE 5

\* moves_remaining of calculate_think_time
MovesRemaining(b, p) ==
    IF ~IsNone(p.movestogo) THEN Val(p.movestogo)
    ELSE IF detect_game_phase(b) = "opening" THEN 40
    ELSE IF detect_game_phase(b) = "middlegame" THEN 20
    ELSE 10

\* the clock branch without the cap at one third of the remaining time
ClockThinkTimeUncapped(R, inc, m, ts) ==
    LET den == 40 * m
        num == IF inc > 0 THEN (4 * R + 3 * inc * m) * ts ELSE 3 * R * ts
        a == IF num - 50 * den >= den THEN num - 50 * den ELSE den
    IN  TruncDiv(a, den)

\* the clock branch of calculate_think_time for R ms remaining, increment
\* inc, m moves remaining (m > 0) and timing score ts tenths. The value
\* before truncation is num/den with
\*   num/den = (R/m + 0.75 inc) * ts/10   when inc > 0
\*   num/den = (R/m) * 0.75 * ts/10        otherwise
ClockThinkTime(R, inc, m, ts) ==
    LET den == 40 * m
        num == IF inc > 0 THEN (4 * R + 3 * inc * m) * ts ELSE 3 * R * ts
        \* max(time_to_use - safety_margin, 1) as a fraction a/den
        a == IF num - 50 * den >= den THEN num - 50 * den ELSE den
        \* min(time_to_use, remaining_time / 3)
    IN  IF 3 * a <= R * den THEN TruncDiv(a, den) ELSE TruncDiv(R, 3)

\* CopycatUCI.calculate_think_time: milliseconds, or the exception raised
calculate_think_time(b, p, phase, timing_data) ==
    IF ~IsNone(p.movetime) THEN [ms |-> Val(p.movetime), exc |-> "none"]
    ELSE IF Turn(b) /\ ~IsNone(p.wtime) THEN
        IF MovesRemaining(b, p) = 0 THEN [ms |-> 0, exc |-> "ZeroDivisionError"]
        ELSE [ms |-> ClockThinkTime(Val(p.wtime), IF IsNone(p.winc) THEN 0 ELSE Val(p.winc),
                                    MovesRemaining(b, p),
                                    calculate_move_timing_score(b, phase, timing_data)),
              exc |-> "none"]
    ELSE IF ~Turn(b) /\ ~IsNone(p.btime) THEN
        IF MovesRemaining(b, p) = 0 THEN [ms |-> 0, exc |-> "ZeroDivisionError"]
        ELSE [ms |-> ClockThinkTime(Val(p.btime), IF IsNone(p.binc) THEN 0 ELSE Val(p.binc),
                                    MovesRemaining(b, p),
                                    calculate_move_timing_score(b, phase, timing_data)),
              exc |-> "none"]
    ELSE [ms |-> 1000, exc |-> "none"]

\* ----------------------------------------------------------------------
\* Output lines and handler results
\* ----------------------------------------------------------------------
Line(k, a) == [k |-> k, a |-> a]
Info(a) == Line("info", a)

\* a handler's result: the board it leaves, the lines it printed and the
\* exception that left it ("none" when it returned)
Res(b, o, e) == [board |-> b, out |-> o, exc |-> e]

\* ----------------------------------------------------------------------
\* position command
\* ----------------------------------------------------------------------
\* chess.Board(fen) on the space-separated fields of a FEN: the first field
\* names the placement, later fields may be left out, a seventh is refused
FenValid(fields) ==
    /\ Len(fields) \in 1..6
    /\ fields[1] \in FenIds
    /\ \A i \in 2..Len(fields) : fields[i] = "-"

FenBoard(fields) == [base |-> fields[1], stack |-> <<>>]

\* index of the first "moves" token at or after position i, Len(args)+1 if none
RECURSIVE MovesIndex(_, _)
MovesIndex(args, i) ==
    IF i > Len(args) \/ args[i] = "moves" THEN i ELSE MovesIndex(args, i + 1)

\* args[i:], the slice from the 1-based index i on
From(args, i) == IF i > Len(args) THEN <<>> ELSE SubSeq(args, i, Len(args))

\* the move loop of CopycatUCI.position and CopycatUCIEngine.position:
\* push_uci raises ValueError on a malformed or an illegal token, and the
\* loop breaks there
RECURSIVE PushUciLoop(_, _, _)
PushUciLoop(b, toks, i) ==
    IF i > Len(toks) THEN [board |-> b, bad |-> FALSE]
    ELSE IF WellFormedMove(toks[i]) /\ IsLegal(b, toks[i])
         THEN PushUciLoop(Push(b, toks[i]), toks, i + 1)
         ELSE [board |-> b, bad |-> TRUE]

\* CopycatUCI.position
PositionCore(b, args) ==
    IF args = <<>> THEN Res(b, <<>>, "none")
    ELSE LET isFen == args[1] = "fen"
             mi == MovesIndex(args, 2)
             fen == IF Len(args) >= 2 THEN SubSeq(args, 2, mi - 1) ELSE <<>>
             base == IF args[1] = "startpos" THEN StartBoard
                     ELSE IF isFen THEN FenBoard(fen) ELSE b
             rest == IF args[1] = "startpos" THEN From(args, 2)
                     ELSE IF isFen THEN From(args, mi) ELSE args
         IN  IF isFen /\ ~FenValid(fen) THEN Res(b, <<Info("Invalid FEN")>>, "none")
             ELSE IF rest # <<>> /\ rest[1] = "moves"
                  THEN LET r == PushUciLoop(base, From(rest, 2), 1)
                       IN  Res(r.board, IF r.bad THEN <<Info("Invalid move")>> ELSE <<>>, "none")
                  ELSE Res(base, <<>>, "none")

\* CopycatUCIEngine.position of builds/v1.0: the FEN is args[1:7] whatever
\* its length, and chess.Board(fen) is not guarded
PositionV10(b, args) ==
    IF args = <<>> THEN Res(b, <<>>, "none")
    ELSE LET isFen == args[1] = "fen"
             fen == IF Len(args) >= 2 THEN SubSeq(args, 2, Min(7, Len(args))) ELSE <<>>
             base == IF args[1] = "startpos" THEN StartBoard
                     ELSE IF isFen THEN FenBoard(fen) ELSE b
             rest == IF args[1] = "startpos" THEN From(args, 2)
                     ELSE IF isFen THEN From(args, 8) ELSE args
         IN  IF isFen /\ ~FenValid(fen) THEN Res(b, <<>>, "ValueError")
             ELSE IF rest # <<>> /\ rest[1] = "moves"
                  THEN Res(PushUciLoop(base, From(rest, 2), 1).board, <<>>, "none")
                  ELSE Res(base, <<>>, "none")

\* the move loop of UCIEngine.handle_position: a malformed token breaks the
\* loop with an info line, a well-formed illegal move is skipped
RECURSIVE PushIfLegalLoop(_, _, _)
PushIfLegalLoop(b, toks, i) ==
    IF i > Len(toks) THEN [board |-> b, bad |-> FALSE]
    ELSE IF ~WellFormedMove(toks[i]) THEN [board |-> b, bad |-> TRUE]
    ELSE PushIfLegalLoop(IF IsLegal(b, toks[i]) THEN Push(b, toks[i]) ELSE b, toks, i + 1)

\* UCIEngine.handle_position
PositionRoot(b, args) ==
    IF args = <<>> THEN Res(b, <<>>, "none")
    ELSE IF args[1] \notin {"startpos", "fen"} THEN Res(b, <<Info("Invalid position command")>>, "none")
    ELSE LET isFen == args[1] = "fen"
             mi == IF isFen THEN MovesIndex(args, 2) ELSE 2
             fen == IF Len(args) >= 2 THEN SubSeq(args, 2, mi - 1) ELSE <<>>
             base == IF isFen THEN FenBoard(fen) ELSE StartBoard
         IN  IF isFen /\ ~FenValid(fen) THEN Res(b, <<Info("Invalid FEN")>>, "none")
             ELSE IF mi <= Len(args) /\ args[mi] = "moves"
                  THEN LET r == PushIfLegalLoop(base, From(args, mi + 1), 1)
                       IN  Res(r.board, IF r.bad THEN <<Info("Invalid move")>> ELSE <<>>, "none")
                  ELSE Res(base, <<>>, "none")

\* the move loop of CopycatEngine.handle_position of builds/v0.7: breaks at
\* the first malformed or illegal token
RECURSIVE PushOrBreakLoop(_, _, _)
PushOrBreakLoop(b, toks, i) ==
    IF i > Len(toks) THEN [board |-> b, bad |-> "none"]
    ELSE IF ~WellFormedMove(toks[i]) THEN [board |-> b, bad |-> "Invalid move"]
    ELSE IF ~IsLegal(b, toks[i]) THEN [board |-> b, bad |-> "Illegal move ignored"]
    ELSE PushOrBreakLoop(Push(b, toks[i]), toks, i + 1)

\* CopycatEngine.handle_position of builds/v0.7: any exception resets the
\* board to the start position; the info lines are printed in debug mode only
PositionV07(b, args, debug) ==
    IF args = <<>> THEN Res(b, <<>>, "none")
    ELSE IF args[1] \notin {"startpos", "fen"} THEN Res(b, <<>>, "none")
    ELSE LET isFen == args[1] = "fen"
             mi == IF isFen THEN MovesIndex(args, 2) ELSE 2
             fen == IF Len(args) >= 2 THEN SubSeq(args, 2, mi - 1) ELSE <<>>
             base == IF isFen THEN FenBoard(fen) ELSE StartBoard
         IN  IF isFen /\ ~FenValid(fen)
             THEN Res(StartBoard, IF debug THEN <<Info("Error in position")>> ELSE <<>>, "none")
             ELSE IF mi <= Len(args) /\ args[mi] = "moves"
                  THEN LET r == PushOrBreakLoop(base, From(args, mi + 1), 1)
                       IN  Res(r.board,
                               IF debug /\ r.bad # "none" THEN <<Info(r.bad)>> ELSE <<>>, "none")
                  ELSE Res(base, <<>>, "none")

\* ----------------------------------------------------------------------
\* Move selection
\* ----------------------------------------------------------------------
\* overall scores a scoring pass may give (the component scores depend on
\* the analysis data and on random jitter)
ScoreValues == {0, 1}

\* the null move chess.Move.null(), printed 0000
NullMove == "0000"

\* a selection's result: the move returned ("None" for Python None), the
\* moves a score was computed for, and the exception raised
Sel(m, scd, e) == [move |-> m, scored |-> scd, exc |-> e]

\* candidates.sort(key=score, reverse=True): stable, descending
RECURSIVE InsertDesc(_, _, _)
InsertDesc(sorted, m, score) ==
    IF sorted = <<>> THEN <<m>>
    ELSE IF score[Head(sorted)] >= score[m]
         THEN <<Head(sorted)>> \o InsertDesc(Tail(sorted), m, score)
         ELSE <<m>> \o sorted

RECURSIVE SortDesc(_, _)
SortDesc(moves, score) ==
    IF moves = <<>> THEN <<>>
    ELSE InsertDesc(SortDesc(SubSeq(moves, 1, Len(moves) - 1), score), moves[Len(moves)], score)

TopMoves(sorted, n) == SubSeq(sorted, 1, Min(n, Len(sorted)))

RECURSIVE SumScores(_, _)
SumScores(ms, score) ==
    IF ms = <<>> THEN 0 ELSE score[Head(ms)] + SumScores(Tail(ms), score)

MinScore(ms, score) ==
    CHOOSE x \in {score[ms[i]] : i \in 1..Len(ms)} :
        \A i \in 1..Len(ms) : x <= score[ms[i]]

\* a draw that adds 1 to every score instead of shifting: all of the top
\* candidates can be returned
SelectableAll(top, score) == SeqToSet(top)

\* the moves the weighted draw of SearchManager.search_best_move can return
\* from the top candidates: all of them when the shifted scores sum to
\* zero, else those of positive shifted score
Selectable(top, score) ==
    LET lo == MinScore(top, score)
        shifted == [m \in SeqToSet(top) |-> IF lo < 0 THEN score[m] - lo ELSE score[m]]
    IN  IF SumScores(top, shifted) <= 0 THEN SeqToSet(top)
        ELSE {m \in SeqToSet(top) : shifted[m] > 0}

\* SearchManager.search_best_move of builds/v1.0_copycat_analyzer, with the
\* scores the pass computes, whether the pass raises, and the move drawn
search_best_move(b, score, fails, pick) ==
    LET legal == LegalMoves(b)
        top == TopMoves(SortDesc(legal, score), 3)
    IN  IF legal = <<>> THEN Sel("None", {}, "none")
        ELSE IF Len(legal) = 1 THEN Sel(legal[1], {}, "none")
        ELSE IF fails THEN Sel("None", {}, "Exception")
        ELSE Sel(IF pick \in Selectable(top, score) THEN pick ELSE top[1],
                 SeqToSet(legal), "none")

\* SearchManager.search_best_move of builds/v1.0: every legal move is
\* scored; the best is returned, or one of the top three when there are
\* more than three candidates
SearchBestMoveV10(b, score, fails, pick) ==
    LET legal == LegalMoves(b)
        sorted == SortDesc(legal, score)
    IN  IF legal = <<>> THEN Sel("None", {}, "none")
        ELSE IF fails THEN Sel("None", {}, "Exception")
        ELSE Sel(IF Len(sorted) > 3 /\ pick \in SeqToSet(TopMoves(sorted, 3))
                 THEN pick ELSE sorted[1],
                 SeqToSet(legal), "none")

\* CopycatChessEngine.select_move: the engine state it leaves
\* (current_phase, opening_detected, move_count) and the move it returns
EngineAfter(b, opening) ==
    [current_phase |-> detect_game_phase(b),
     opening_detected |-> IF detect_game_phase(b) = "opening" /\ opening = "None"
                          THEN detect_opening(b) ELSE opening,
     move_count |-> FullmoveNumber(b)]

\* best_move of select_move: None from the search becomes the null move
SelectMoveResult(sel) ==
    IF sel.exc # "none" THEN sel
    ELSE IF sel.move = "None" THEN [sel EXCEPT !.move = NullMove]
    ELSE sel

Builds == {"core", "root", "v07", "v10", "v3"}
UciBuilds == {"core", "root", "v07", "v10"}

\* the command words each loop dispatches on
Recognized(bld) ==
    CASE bld = "core" -> {"uci", "debug", "isready", "setoption", "ucinewgame", "position",
                          "go", "stop", "ponderhit", "quit"}
      [] bld = "root" -> {"uci", "isready", "position", "go", "stop", "quit", "ucinewgame"}
      [] bld = "v07" -> {"uci", "isready", "setoption", "position", "go", "stop", "quit",
                         "ucinewgame"}
      [] bld = "v10" -> {"uci", "debug", "isready", "setoption", "ucinewgame", "position",
                         "go", "quit"}
      [] OTHER -> {}

\* ----------------------------------------------------------------------
\* Inputs
\* ----------------------------------------------------------------------
\* the move lists a position command carries: legal ones, one that is no
\* move at all, and ones that stop being legal part of the way
MoveLists ==
    {<<>>, <<"e2e4">>, <<"e2e4", "e7e5">>, <<"zzzz">>, <<"e2e4", "zzzz">>, <<"e2e4", "e2e4">>}

FullFen(id) == <<"fen", id, "-", "-", "-", "-", "-">>

PositionBases ==
    {<<"startpos">>, <<>>, <<"junk">>, <<"fen">>, <<"fen", "fenEnd">>, FullFen("fenBad")}
    \cup {FullFen(id) : id \in FenIds}

MovedBases == {<<"startpos">>, <<"junk">>}

PositionArgs ==
    PositionBases \cup {pb \o <<"moves">> \o ms : pb \in MovedBases, ms \in MoveLists}

GoArgs ==
    {<<>>, <<"infinite">>, <<"movetime", "1000">>, <<"movetime", "abc">>,
     <<"wtime", "3000", "btime", "3000", "movestogo", "0">>}

UnknownWords == {"xyzzy", "debug", "setoption", "ponderhit", "stop"}

\* what one scoring pass meets: the score each component sum gives a
\* move, whether a scorer raises, and the move the random draw falls on
\* (a failed pass, or a board without moves, has nothing to draw)
ScoringInputs(b) ==
    LET ms == SeqToSet(LegalMoves(b))
    IN  {sc \in [score : [ms -> ScoreValues], fails : BOOLEAN, pick : ms \cup {"None"}] :
            /\ (sc.fails \/ ms = {}) => (sc.pick = "None" /\ \A m \in ms : sc.score[m] = 0)
            /\ (~sc.fails /\ ms # {}) => sc.pick # "None"
            /\ (ms = {} => ~sc.fails)}

\* the positions CopycatEngineV3.select_move is called on first
V3Boards == {StartBoard} \cup {[base |-> id, stack |-> <<>>] : id \in FenIds}

\* ----------------------------------------------------------------------
\* Initial state: the objects as their constructors leave them
\* ----------------------------------------------------------------------
Init ==
    /\ build \in Builds
    /\ env \in [timing_data : BOOLEAN, ai_modules : BOOLEAN]
    /\ (build \notin {"core", "v10"} => ~env.timing_data)
    /\ (build # "v07" => ~env.ai_modules)
    /\ running = TRUE
    /\ board \in (IF build = "v3" THEN V3Boards ELSE {StartBoard})
    /\ tc = NoParams
    /\ debug_mode = FALSE
    /\ current_phase = "opening"
    /\ opening_detected = "None"
    /\ move_count = 0
    /\ initialized = FALSE
    /\ ai = "None"
    /\ pc = "idle"
    /\ sleepLeft = 0
    /\ pending = "None"
    /\ stopPending = FALSE
    /\ lastCmd = "none"
    /\ lastArgs = <<>>
    /\ out = <<>>
    /\ scored = {}
    /\ failed = FALSE
    /\ clock = 0

\* the loop reads the next line: stdin is first in, first out, so a stop
\* that arrived during go is read before anything sent after it
Reads(word) ==
    /\ build \in UciBuilds
    /\ running
    /\ pc = "idle"
    /\ (stopPending => word = "stop")

\* what every handler does to the bookkeeping of the last command
Handled(word, args, lines) ==
    /\ lastCmd' = word
    /\ lastArgs' = args
    /\ out' = lines
    /\ stopPending' = (IF word = "stop" THEN FALSE ELSE stopPending)
    /\ clock' = 0

\* ----------------------------------------------------------------------
\* Commands without arguments
\* ----------------------------------------------------------------------
\* uci: identification, options, uciok
CmdUci ==
    /\ Reads("uci")
    /\ Handled("uci", <<>>,
               <<Line("id", "name"), Line("id", "author")>>
               \o (CASE build = "core" -> <<Line("option", "Hash"), Line("option", "Style Consistency"),
                                            Line("option", "Decisiveness"), Line("option", "Debug")>>
                     [] build = "root" -> <<Line("option", "Hash"), Line("option", "Threads")>>
                     [] OTHER -> <<Line("option", "Debug")>>)
               \o <<Line("uciok", "")>>)
    /\ UNCHANGED <<build, env, running, board, tc, debug_mode, current_phase, opening_detected,
                   move_count, initialized, ai, pc, sleepLeft, pending>>
    /\ scored' = {}
    /\ failed' = FALSE

\* UCIEngine.initialize_engine: whether the model and vocabulary files load
\* is the environment's choice at each attempt
InitializeRoot(ok) ==
    IF ok THEN [initialized |-> TRUE, ai |-> "model",
                out |-> <<Info("Found model"), Info("Found vocabulary")>>]
    ELSE [initialized |-> FALSE, ai |-> "None", out |-> <<Info("Error initializing engine")>>]

\* CopycatEngine.initialize of builds/v0.7: always ends initialized, with or
\* without the model
InitializeV07(loaded) ==
    IF env.ai_modules /\ loaded
    THEN [initialized |-> TRUE, ai |-> "model", out |-> <<Info("AI successfully initialized")>>]
    ELSE [initialized |-> TRUE, ai |-> "None", out |-> <<Info("Running in evaluation-only mode")>>]

\* UCIEngine.handle_isready
IsReadyRoot(ok) ==
    IF initialized THEN [initialized |-> initialized, ai |-> ai, out |-> <<Line("readyok", "")>>]
    ELSE LET r == InitializeRoot(ok)
         IN  IF r.initialized THEN [r EXCEPT !.out = @ \o <<Line("readyok", "")>>]
             ELSE [r EXCEPT !.out = @ \o <<Info("Engine initialization failed")>>]

\* CopycatEngine.handle_isready of builds/v0.7
IsReadyV07(loaded) ==
    IF initialized THEN [initialized |-> initialized, ai |-> ai, out |-> <<Line("readyok", "")>>]
    ELSE [InitializeV07(loaded) EXCEPT !.out = @ \o <<Line("readyok", "")>>]

\* CopycatUCI.isready and CopycatUCIEngine.isready
IsReadyCore == [initialized |-> initialized, ai |-> ai, out |-> <<Line("readyok", "")>>]

\* isready
CmdIsReady ==
    /\ Reads("isready")
    /\ \E ok \in BOOLEAN :
         LET r == CASE build = "root" -> IsReadyRoot(ok)
                    [] build = "v07" -> IsReadyV07(ok)
                    [] OTHER -> IsReadyCore
         IN  /\ initialized' = r.initialized
             /\ ai' = r.ai
             /\ Handled("isready", <<>>, r.out)
    /\ UNCHANGED <<build, env, running, board, tc, debug_mode, current_phase, opening_detected,
                   move_count, pc, sleepLeft, pending>>
    /\ scored' = {}
    /\ failed' = FALSE

\* CopycatUCI.ucinewgame, UCIEngine.handle_ucinewgame and their copies:
\* the board is replaced, the engine object is not touched
UciNewGameBoard(b) == StartBoard

\* ucinewgame
CmdUciNewGame ==
    /\ Reads("ucinewgame")
    /\ board' = UciNewGameBoard(board)
    /\ Handled("ucinewgame", <<>>, <<>>)
    /\ UNCHANGED <<build, env, running, tc, debug_mode, current_phase, opening_detected,
                   move_count, initialized, ai, pc, sleepLeft, pending>>
    /\ scored' = {}
    /\ failed' = FALSE

\* stop (CopycatUCI.process_command, handle_stop): nothing is done
CmdStop ==
    /\ Reads("stop")
    /\ "stop" \in Recognized(build)
    /\ Handled("stop", <<>>, <<>>)
    /\ UNCHANGED <<build, env, running, board, tc, debug_mode, current_phase, opening_detected,
                   move_count, initialized, ai, pc, sleepLeft, pending>>
    /\ scored' = {}
    /\ failed' = FALSE

\* ponderhit (CopycatUCI.process_command): nothing is done
CmdPonderHit ==
    /\ Reads("ponderhit")
    /\ "ponderhit" \in Recognized(build)
    /\ Handled("ponderhit", <<>>, <<>>)
    /\ UNCHANGED <<build, env, running, board, tc, debug_mode, current_phase, opening_detected,
                   move_count, initialized, ai, pc, sleepLeft, pending>>
    /\ scored' = {}
    /\ failed' = FALSE

\* quit: process_command returns False and the loop breaks; handle_quit
\* calls sys.exit
CmdQuit ==
    /\ Reads("quit")
    /\ running' = FALSE
    /\ Handled("quit", <<>>, <<>>)
    /\ UNCHANGED <<build, env, board, tc, debug_mode, current_phase, opening_detected,
                   move_count, initialized, ai, pc, sleepLeft, pending>>
    /\ scored' = {}
    /\ failed' = FALSE

\* a dispatch that answers an unknown word with an error line
UnknownLinesAsError(bld, debug) == <<Line("error", "Unknown command")>>

\* the else branch of the dispatch: CopycatUCI prints an info line in debug
\* mode, the other loops print nothing
UnknownLines(bld, debug) ==
    IF bld = "core" /\ debug THEN <<Info("Unknown command")>> ELSE <<>>

\* a command word the loop does not dispatch on
CmdUnknown(word) ==
    /\ Reads(word)
    /\ word \notin Recognized(build)
    /\ Handled(word, <<>>, UnknownLines(build, debug_mode))
    /\ UNCHANGED <<build, env, running, board, tc, debug_mode, current_phase, opening_detected,
                   move_count, initialized, ai, pc, sleepLeft, pending>>
    /\ scored' = {}
    /\ failed' = FALSE

\* ----------------------------------------------------------------------
\* debug and setoption
\* ----------------------------------------------------------------------
DebugArgs == {<<>>, <<"on">>, <<"off">>}

\* CopycatUCI.debug
DebugCore(debug, args) ==
    IF args = <<>> THEN [debug |-> debug, out |-> <<>>]
    ELSE [debug |-> args[1] = "on",
          out |-> <<Info(IF args[1] = "on" THEN "Debug mode enabled" ELSE "Debug mode disabled")>>]

\* debug
CmdDebug(args) ==
    /\ Reads("debug")
    /\ build = "core"
    /\ debug_mode' = DebugCore(debug_mode, args).debug
    /\ Handled("debug", args, DebugCore(debug_mode, args).out)
    /\ UNCHANGED <<build, env, running, board, tc, current_phase, opening_detected,
                   move_count, initialized, ai, pc, sleepLeft, pending>>
    /\ scored' = {}
    /\ failed' = FALSE

SetOptionArgs ==
    {<<"name", "Debug", "value", "true">>, <<"name", "Debug", "value", "false">>,
     <<"name", "Debug">>, <<"name", "Hash", "value", "32">>, <<"name", "Hash", "value", "abc">>,
     <<"Debug", "true">>}

\* CopycatUCI.setoption, for the options Debug and Hash: a missing value
\* or a value that is no number changes nothing
SetOptionCore(debug, args) ==
    IF Len(args) < 2 \/ args[1] # "name" THEN [debug |-> debug, out |-> <<>>]
    ELSE IF ~(\E i \in 1..Len(args) - 1 : args[i] = "value") THEN [debug |-> debug, out |-> <<>>]
    ELSE LET vi == CHOOSE i \in 1..Len(args) - 1 :
                      args[i] = "value" /\ \A j \in 1..i - 1 : args[j] # "value"
             value == args[vi + 1]
         IN  IF args[2] = "Hash"
             THEN [debug |-> debug,
                   out |-> IF IsInt(value) /\ debug THEN <<Info("Hash size set")>> ELSE <<>>]
             ELSE IF args[2] = "Debug"
             THEN [debug |-> value \in {"true", "1", "yes", "on"},
                   out |-> <<Info(IF value \in {"true", "1", "yes", "on"}
                                  THEN "Debug mode enabled" ELSE "Debug mode disabled")>>]
             ELSE [debug |-> debug, out |-> <<>>]

\* CopycatEngine.handle_setoption of builds/v0.7
SetOptionV07(debug, args) ==
    IF Len(args) >= 4 /\ args[1] = "name" /\ args[3] = "value" /\ args[2] \in {"Debug", "debug"}
    THEN [debug |-> args[4] = "true", out |-> <<Info("Debug mode")>>]
    ELSE [debug |-> debug, out |-> <<>>]

\* setoption
CmdSetOption(args) ==
    /\ Reads("setoption")
    /\ build \in {"core", "v07"}
    /\ LET r == IF build = "core" THEN SetOptionCore(debug_mode, args)
                ELSE SetOptionV07(debug_mode, args)
       IN  /\ debug_mode' = r.debug
           /\ Handled("setoption", args, r.out)
    /\ UNCHANGED <<build, env, running, board, tc, current_phase, opening_detected,
                   move_count, initialized, ai, pc, sleepLeft, pending>>
    /\ scored' = {}
    /\ failed' = FALSE

\* ----------------------------------------------------------------------
\* The command loops' exception handlers
\* ----------------------------------------------------------------------
\* what the loop prints when a handler raises: main_loop and run catch
\* Exception, print an info line (builds/v0.7 in debug mode only) and go on
LoopCatch(bld, debug, lines) ==
    IF bld = "v07" THEN (IF debug THEN lines \o <<Info("Command error")>> ELSE lines)
    ELSE lines \o <<Info("Error")>>

\* a loop without the except clause: the first exception ends it
LoopEndsOnException(bld, exc) == FALSE

\* whether the loop is still running after a handler raised
LoopSurvives(bld, exc) == TRUE

\* ----------------------------------------------------------------------
\* position
\* ----------------------------------------------------------------------
PositionResult(bld, b, args, debug) ==
    CASE bld = "core" -> PositionCore(b, args)
      [] bld = "root" -> PositionRoot(b, args)
      [] bld = "v07" -> PositionV07(b, args, debug)
      [] OTHER -> PositionV10(b, args)

\* position
CmdPosition(args) ==
    /\ Reads("position")
    /\ LET r == PositionResult(build, board, args, debug_mode)
       IN  /\ Len(r.board.stack) <= MaxPly
           /\ board' = r.board
           /\ running' = (IF r.exc = "none" THEN running ELSE LoopSurvives(build, r.exc))
           /\ Handled("position", args,
                      IF r.exc = "none" THEN r.out ELSE LoopCatch(build, debug_mode, r.out))
    /\ UNCHANGED <<build, env, tc, debug_mode, current_phase, opening_detected,
                   move_count, initialized, ai, pc, sleepLeft, pending>>
    /\ scored' = {}
    /\ failed' = FALSE

\* ----------------------------------------------------------------------
\* go of CopycatUCI (src/src/core) and of CopycatUCIEngine (builds/v1.0)
\* ----------------------------------------------------------------------
\* the lines CopycatChessEngine.select_move prints on stdout
SelectLines(b, opening, sel) ==
    (IF EngineAfter(b, opening).opening_detected # opening
     THEN <<Line("text", "Opening detected")>> ELSE <<>>)
    \o (IF sel.exc = "none" /\ sel.move # NullMove
        THEN <<Line("text", "Top move")>> ELSE <<>>)

\* the sleep of CopycatUCI.go after select_move returned at once
SleepCore(ms, p) == IF ms > 0 /\ ~p.infinite THEN ms ELSE 0

\* the parameter loop of CopycatUCIEngine.go: a value that is no number is
\* passed over
RECURSIVE ParseGoV10(_, _, _)
ParseGoV10(args, i, p) ==
    IF i > Len(args) THEN p
    ELSE IF args[i] \in {"wtime", "btime", "winc", "binc", "movestogo", "depth", "nodes", "movetime"}
         THEN ParseGoV10(args, i + 2,
                         IF i + 1 <= Len(args) /\ IsInt(args[i + 1])
                         THEN SetParam(p, args[i], IntOf(args[i + 1])) ELSE p)
         ELSE ParseGoV10(args, i + 1, p)

\* think_time of CopycatUCIEngine.go in whole milliseconds: movetime, or 5%
\* of the remaining time scaled by the timing score and kept within
\* [0.1 s, 5 s], or one second
ThinkTimeV10(b, p, phase, timing_data) ==
    LET rem == IF Turn(b) /\ ~IsNone(p.wtime) THEN p.wtime
               ELSE IF ~Turn(b) /\ ~IsNone(p.btime) THEN p.btime ELSE None
    IN  IF ~IsNone(p.movetime) THEN Val(p.movetime)
        ELSE IF ~IsNone(rem)
             THEN Max(100, Min(5000,
                    (Val(rem) * calculate_move_timing_score(b, phase, timing_data)) \div 200))
             ELSE 1000

\* go of CopycatUCI, up to the call of select_move: the parameters left in
\* self and the think time, or the exception raised
GoPrologueCore(b, args, phase, timing_data) ==
    LET pr == parse_go_params(b, args)
        tt == calculate_think_time(b, pr.p, phase, timing_data)
    IN  IF pr.exc # "none" THEN [p |-> pr.p, ms |-> 0, exc |-> pr.exc]
        ELSE [p |-> pr.p, ms |-> tt.ms, exc |-> tt.exc]

\* go of CopycatUCI: parse, think time, select_move; the reply follows the sleep
GoCore(args) ==
    /\ Reads("go")
    /\ build = "core"
    /\ LET pro == GoPrologueCore(board, args, current_phase, env.timing_data)
           eng == EngineAfter(board, opening_detected)
           dbg == IF debug_mode THEN <<Info("thinking"), Info("Position FEN")>> ELSE <<>>
       IN  /\ tc' = pro.p
           /\ IF pro.exc # "none"
              THEN /\ Handled("go", args, LoopCatch(build, debug_mode, <<>>))
                   /\ running' = LoopSurvives(build, pro.exc)
                   /\ UNCHANGED <<current_phase, opening_detected, move_count, pc, sleepLeft,
                                  pending>>
                   /\ scored' = {}
                   /\ failed' = FALSE
              ELSE \E sc \in ScoringInputs(board) :
                     LET sel == SelectMoveResult(
                                    search_best_move(board, sc.score, sc.fails, sc.pick))
                         lines == dbg \o SelectLines(board, opening_detected, sel)
                     IN  /\ current_phase' = eng.current_phase
                         /\ opening_detected' = eng.opening_detected
                         /\ move_count' = eng.move_count
                         /\ scored' = sel.scored
                         /\ failed' = (sel.exc # "none")
                         /\ IF sel.exc # "none"
                            THEN /\ Handled("go", args, LoopCatch(build, debug_mode, lines))
                                 /\ running' = LoopSurvives(build, sel.exc)
                                 /\ UNCHANGED <<pc, sleepLeft, pending>>
                            ELSE /\ Handled("go", args, lines)
                                 /\ pc' = "searching"
                                 /\ sleepLeft' = SleepCore(pro.ms, pro.p)
                                 /\ pending' = sel.move
                                 /\ UNCHANGED running
    /\ UNCHANGED <<build, env, board, debug_mode, initialized, ai>>

\* go of CopycatUCIEngine (builds/v1.0): the parameters are local, the
\* scoring is not guarded, the reply follows the sleep
GoV10(args) ==
    /\ Reads("go")
    /\ build = "v10"
    /\ LET p == ParseGoV10(args, 1, NoParams)
           eng == EngineAfter(board, opening_detected)
       IN  \E sc \in ScoringInputs(board) :
             LET sel == SelectMoveResult(
                            SearchBestMoveV10(board, sc.score, sc.fails, sc.pick))
                 lines == SelectLines(board, opening_detected, sel)
             IN  /\ current_phase' = eng.current_phase
                 /\ opening_detected' = eng.opening_detected
                 /\ move_count' = eng.move_count
                 /\ scored' = sel.scored
                 /\ failed' = (sel.exc # "none")
                 /\ IF sel.exc # "none"
                    THEN /\ Handled("go", args, LoopCatch(build, debug_mode, lines))
                         /\ running' = LoopSurvives(build, sel.exc)
                         /\ UNCHANGED <<pc, sleepLeft, pending>>
                    ELSE /\ Handled("go", args, lines)
                         /\ pc' = "searching"
                         /\ sleepLeft' = ThinkTimeV10(board, p, current_phase, env.timing_data)
                         /\ pending' = sel.move
                         /\ UNCHANGED running
    /\ UNCHANGED <<build, env, board, tc, debug_mode, initialized, ai>>

\* time.sleep of go: TickMs more milliseconds pass
SleepTick ==
    /\ running
    /\ pc = "searching"
    /\ sleepLeft > 0
    /\ sleepLeft' = Max(0, sleepLeft - TickMs)
    /\ clock' = clock + Min(TickMs, sleepLeft)
    /\ UNCHANGED <<build, env, running, board, tc, debug_mode, current_phase, opening_detected,
                   move_count, initialized, ai, pc, pending, stopPending, lastCmd, lastArgs,
                   out, scored, failed>>

\* the last statement of go: CopycatUCI prints bestmove 0000 for the null
\* move, CopycatUCIEngine prints bestmove (none)
ReplyLine(bld, move) ==
    IF move # NullMove /\ move # "None" THEN Line("bestmove", move)
    ELSE IF bld = "v10" THEN Line("bestmove", "(none)")
    ELSE Line("bestmove", NullMove)

\* go prints its reply once the sleep is over
GoReply ==
    /\ running
    /\ pc = "searching"
    /\ sleepLeft = 0
    /\ out' = Append(out, ReplyLine(build, pending))
    /\ pc' = "idle"
    /\ pending' = "None"
    /\ UNCHANGED <<clock, build, env, running, board, tc, debug_mode, current_phase, opening_detected,
                   move_count, initialized, ai, sleepLeft, stopPending, lastCmd, lastArgs, scored,
                   failed>>

\* the host writes stop while go has not replied: the line stays on stdin
\* until the loop reads again
HostSendsStop ==
    /\ running
    /\ pc = "searching"
    /\ ~stopPending
    /\ stopPending' = TRUE
    /\ UNCHANGED <<clock, build, env, running, board, tc, debug_mode, current_phase, opening_detected,
                   move_count, initialized, ai, pc, sleepLeft, pending, lastCmd, lastArgs,
                   out, scored, failed>>

\* ----------------------------------------------------------------------
\* go of UCIEngine (src/uci_interface.py)
\* ----------------------------------------------------------------------
\* the parameter loop of UCIEngine.handle_go; depth is a local variable
RECURSIVE ParseGoRoot(_, _, _)
ParseGoRoot(args, i, p) ==
    IF i > Len(args) THEN [p |-> p, exc |-> "none"]
    ELSE IF args[i] \in {"wtime", "btime", "winc", "binc", "movestogo", "depth", "movetime"} THEN
        IF i + 1 > Len(args) THEN ParseGoRoot(args, i + 2, p)
        ELSE IF ~IsInt(args[i + 1]) THEN [p |-> p, exc |-> "ValueError"]
        ELSE ParseGoRoot(args, i + 2,
                         IF args[i] = "depth" THEN p ELSE SetParam(p, args[i], IntOf(args[i + 1])))
    ELSE ParseGoRoot(args, i + 1, p)

\* UCIEngine.calculate_think_time divides the remaining time by movestogo
ThinkTimeRootRaises(b, p) ==
    /\ IsNone(p.movetime)
    /\ ~(IsNone(p.wtime) /\ IsNone(p.btime))
    /\ ~IsNone(IF Turn(b) THEN p.wtime ELSE p.btime)
    /\ p.movestogo = Some(0)

\* what self.ai.select_best_move may hand back: a legal move, None, a move
\* that is not legal, or an exception
AiOutcomes(b) == SeqToSet(LegalMoves(b)) \cup {"None", "e2e5", "raise"}

\* random.choice(legal_moves) of the fallbacks
Fallbacks(b) == IF LegalMoves(b) = <<>> THEN {"None"} ELSE SeqToSet(LegalMoves(b))

\* what one go meets outside the program: whether the model files load
\* (asked only while not initialised), what the model answers, and the
\* move a random or evaluation fallback lands on (asked only when the
\* answer is not a legal move)
AiInputs(b, init) ==
    {e \in [ok : BOOLEAN, aiOut : AiOutcomes(b), fb : Fallbacks(b)] :
        /\ (init => e.ok)
        /\ (IsLegal(b, e.aiOut) => e.fb = e.aiOut)}

\* the reply of UCIEngine.handle_go when the engine could not be initialised
DummyReply == Line("bestmove", "a1a1")

\* UCIEngine.handle_go
GoRootResult(b, p0, args, init, aiv, ok, aiOut, fb) ==
    LET i0 == IF init THEN [initialized |-> init, ai |-> aiv, out |-> <<>>]
              ELSE InitializeRoot(ok)
        pr == ParseGoRoot(args, 1, NoParams)
        st(p, lines, e, f) == [initialized |-> i0.initialized, ai |-> i0.ai, p |-> p,
                               out |-> lines, exc |-> e, failed |-> f]
    IN  IF ~i0.initialized
        THEN st(p0, i0.out \o <<Info("Engine not initialized"), DummyReply>>, "none", FALSE)
        ELSE IF i0.ai = "None"
        THEN st(p0, i0.out \o <<Info("AI engine not properly initialized"), DummyReply>>,
                "none", FALSE)
        ELSE IF pr.exc # "none" THEN st(pr.p, i0.out, pr.exc, FALSE)
        ELSE IF ThinkTimeRootRaises(b, pr.p) THEN st(pr.p, i0.out, "ZeroDivisionError", FALSE)
        ELSE IF LegalMoves(b) = <<>>
        THEN st(pr.p, i0.out \o <<Info("Game over position"), Line("bestmove", NullMove)>>,
                "none", FALSE)
        ELSE IF aiOut = "raise"
        THEN st(pr.p, i0.out \o <<Info("Error finding best move"),
                                  Info("Using fallback random move"), Line("bestmove", fb)>>,
                "none", TRUE)
        ELSE IF aiOut = "None" \/ ~IsLegal(b, aiOut)
        THEN st(pr.p, i0.out \o <<Info("Using fallback random move"), Line("bestmove", fb)>>,
                "none", FALSE)
        ELSE st(pr.p, i0.out \o <<Line("bestmove", aiOut)>>, "none", FALSE)

\* go of UCIEngine
GoRoot(args) ==
    /\ Reads("go")
    /\ build = "root"
    /\ \E e \in AiInputs(board, initialized) :
         LET r == GoRootResult(board, tc, args, initialized, ai, e.ok, e.aiOut, e.fb)
         IN  /\ initialized' = r.initialized
             /\ ai' = r.ai
             /\ tc' = r.p
             /\ running' = (IF r.exc = "none" THEN running ELSE LoopSurvives(build, r.exc))
             /\ failed' = r.failed
             /\ Handled("go", args,
                        IF r.exc = "none" THEN r.out ELSE LoopCatch(build, debug_mode, r.out))
    /\ UNCHANGED <<build, env, board, debug_mode, current_phase, opening_detected, move_count,
                   pc, sleepLeft, pending>>
    /\ scored' = {}

\* ----------------------------------------------------------------------
\* go of CopycatEngine (builds/v0.7)
\* ----------------------------------------------------------------------
\* parse_time_controls: tokens are read in pairs, a value that is no number
\* is passed over
RECURSIVE ParseGoV07(_, _, _)
ParseGoV07(args, i, p) ==
    IF i + 1 > Len(args) THEN p
    ELSE ParseGoV07(args, i + 2,
            IF args[i] \in {"movetime", "wtime", "btime", "winc", "binc", "movestogo"}
               /\ IsInt(args[i + 1])
            THEN SetParam(p, args[i], IntOf(args[i + 1])) ELSE p)

\* CopycatEngine.find_best_move: None without legal moves, the only move
\* when there is one, else the model's answer as it comes (the first legal
\* move when the model raises), the evaluator's best move, or the first
\* legal move
FindBestMoveV07(b, aiv, modules, aiOut, evalMove, debug) ==
    LET legal == LegalMoves(b)
        fm(m, lines, f) == [move |-> m, out |-> IF debug THEN lines ELSE <<>>, failed |-> f]
    IN  IF legal = <<>> THEN fm("None", <<>>, FALSE)
        ELSE IF Len(legal) = 1 THEN fm(legal[1], <<>>, FALSE)
        ELSE IF aiv # "None"
        THEN (IF aiOut = "raise"
              THEN fm(legal[1], <<Info("Using AI + Evaluation"),
                                  Info("Error in move selection")>>, TRUE)
              ELSE fm(aiOut, <<Info("Using AI + Evaluation")>>, FALSE))
        ELSE IF modules THEN fm(evalMove, <<Info("Using evaluation only")>>, FALSE)
        ELSE fm(legal[1], <<Info("Using first legal move")>>, FALSE)

\* CopycatEngine.handle_go
GoV07Result(b, args, init, aiv, loaded, aiOut, evalMove, debug) ==
    LET i0 == IF init THEN [initialized |-> init, ai |-> aiv, out |-> <<>>]
              ELSE IsReadyV07(loaded)
        best == FindBestMoveV07(b, i0.ai, env.ai_modules, aiOut, evalMove, debug)
    IN  [initialized |-> i0.initialized, ai |-> i0.ai, p |-> ParseGoV07(args, 1, NoParams),
         failed |-> best.failed,
         out |-> i0.out
                 \o (IF debug THEN <<Info("Thinking time")>> ELSE <<>>)
                 \o best.out
                 \o (IF best.move # "None"
                     THEN (IF debug THEN <<Info("Move selected")>> ELSE <<>>)
                          \o <<Line("bestmove", best.move)>>
                     ELSE <<Line("bestmove", NullMove)>>)]

\* go of CopycatEngine
GoV07(args) ==
    /\ Reads("go")
    /\ build = "v07"
    /\ \E e \in AiInputs(board, initialized) :
         LET r == GoV07Result(board, args, initialized, ai, e.ok, e.aiOut, e.fb, debug_mode)
         IN  /\ initialized' = r.initialized
             /\ ai' = r.ai
             /\ tc' = r.p
             /\ failed' = r.failed
             /\ Handled("go", args, r.out)
    /\ UNCHANGED <<build, env, running, board, debug_mode, current_phase, opening_detected,
                   move_count, pc, sleepLeft, pending>>
    /\ scored' = {}

\* ----------------------------------------------------------------------
\* CopycatEngineV3 (src/core/engine_v3.py)
\* ----------------------------------------------------------------------
\* a filter that drops nothing
FilterKeepsEveryMove(moves, unsafe) == moves

\* _filter_tactical_blunders: the moves that are not blunders, or all of
\* them when every move is one
FilterTacticalBlunders(moves, unsafe) ==
    LET keep(m) == m \notin unsafe
        safe_moves == SelectSeq(moves, keep)
    IN  IF safe_moves # <<>> THEN safe_moves ELSE moves

\* a final selection that draws among all scored moves
SelectFinalMoveAmongAll(scored_moves, score, pick) ==
    IF pick \in SeqToSet(scored_moves) THEN pick ELSE scored_moves[1]

\* _select_final_move: the weights score + 1 are positive, so the draw can
\* fall on any of the three best
SelectFinalMove(scored_moves, score, pick) ==
    LET top_moves == TopMoves(SortDesc(scored_moves, score), 3)
    IN  IF pick \in SeqToSet(top_moves) THEN pick ELSE top_moves[1]

\* CopycatEngineV3.select_move: the move, the moves that were scored,
\* whether moves_played was counted up, and the exception it raises
V3Select(b, unsafe, score, fails, pick, fb) ==
    LET legal_moves == LegalMoves(b)
        safe_moves == FilterTacticalBlunders(legal_moves, unsafe)
    IN  IF legal_moves = <<>>
        THEN [move |-> "None", scored |-> {}, counted |-> FALSE, failed |-> FALSE,
              exc |-> "ValueError"]
        ELSE IF Len(legal_moves) = 1
        THEN [move |-> legal_moves[1], scored |-> {}, counted |-> FALSE, failed |-> FALSE,
              exc |-> "none"]
        ELSE IF fails
        THEN [move |-> fb, scored |-> {}, counted |-> TRUE, failed |-> TRUE, exc |-> "none"]
        ELSE [move |-> SelectFinalMove(safe_moves, score, pick),
              scored |-> SeqToSet(safe_moves), counted |-> TRUE, failed |-> FALSE,
              exc |-> "none"]

\* one round of test_engine: select_move on the board, then the move is
\* pushed; an exception of select_move ends the program
V3SelectMove ==
    /\ build = "v3"
    /\ running
    /\ Len(board.stack) < MaxPly
    /\ \E unsafe \in SUBSET SeqToSet(LegalMoves(board)),
          score \in [SeqToSet(LegalMoves(board)) -> ScoreValues],
          fails \in BOOLEAN,
          pick \in SeqToSet(LegalMoves(board)) \cup {"None"},
          fb \in Fallbacks(board) :
         LET r == V3Select(board, unsafe, score, fails, pick, fb)
         IN  /\ running' = (r.exc = "none")
             /\ board' = (IF r.exc = "none" THEN Push(board, r.move) ELSE board)
             /\ move_count' = (IF r.counted THEN move_count + 1 ELSE move_count)
             /\ scored' = r.scored
             /\ failed' = r.failed
             /\ pending' = r.move
             /\ Handled("select_move", <<>>,
                        IF r.exc = "none" THEN <<Line("move", r.move)>> ELSE <<>>)
    /\ UNCHANGED <<build, env, tc, debug_mode, current_phase, opening_detected,
                   initialized, ai, pc, sleepLeft>>

\* ----------------------------------------------------------------------
\* The program
\* ----------------------------------------------------------------------
Next ==
    \/ CmdUci
    \/ CmdIsReady
    \/ CmdUciNewGame
    \/ CmdStop
    \/ CmdPonderHit
    \/ CmdQuit
    \/ \E w \in UnknownWords : CmdUnknown(w)
    \/ \E args \in DebugArgs : CmdDebug(args)
    \/ \E args \in SetOptionArgs : CmdSetOption(args)
    \/ \E args \in PositionArgs : CmdPosition(args)
    \/ \E args \in GoArgs : GoCore(args)
    \/ \E args \in GoArgs : GoV10(args)
    \/ \E args \in GoArgs : GoRoot(args)
    \/ \E args \in GoArgs : GoV07(args)
    \/ SleepTick
    \/ GoReply
    \/ HostSendsStop
    \/ V3SelectMove

Spec == Init /\ [][Next]_vars

\* ----------------------------------------------------------------------
\* Properties
\* ----------------------------------------------------------------------
\* the bestmove lines among the lines printed
BestMoves(lines) ==
    LET isBest(l) == l.k = "bestmove" IN SelectSeq(lines, isBest)

OnlyInfo(lines) == \A i \in 1..Len(lines) : lines[i].k = "info"

\* the board before its last move was pushed
BeforeLast(b) == [b EXCEPT !.stack = SubSeq(b.stack, 1, Len(b.stack) - 1)]

\* C1: every go command, whatever its arguments and whatever the position,
\* is answered with exactly one bestmove line. Stated for CopycatUCI and
\* for a go whose scoring pass did not fail: once go has been handled and
\* the loop waits again, the lines printed for it hold exactly one bestmove.
C1_GoPrintsOneBestmove ==
    (build = "core" /\ lastCmd = "go" /\ pc = "idle" /\ ~failed) => Len(BestMoves(out)) = 1

\* C2: when the position has a legal move, the move named in the bestmove
\* reply to go is a legal move of the position, in every engine state
\* (initialised or not, scorer succeeded or failed).
C2_BestmoveIsLegal ==
    (build \in {"root", "core"} /\ lastCmd = "go" /\ pc = "idle" /\ LegalMoves(board) # <<>>)
        => \A i \in 1..Len(BestMoves(out)) : IsLegal(board, BestMoves(out)[i].a)

\* C3: on a position without legal moves, move selection returns the null
\* move, which is answered as bestmove 0000, and raises nothing to its
\* caller. Stated for a plain go (no arguments) and for select_move.
C3_NoLegalMoveGivesNullMove ==
    (build \in {"v3", "core", "v10"} /\ lastCmd \in {"go", "select_move"} /\ lastArgs = <<>>
     /\ pc = "idle" /\ LegalMoves(board) = <<>>)
        => /\ running
           /\ (build = "v3" => pending = NullMove)
           /\ (build # "v3" => BestMoves(out) = <<Line("bestmove", NullMove)>>)

\* C4: a stop sent while the search is in progress makes go reply at once,
\* without waiting for the rest of the think time: with a stop waiting, the
\* next step of a searching CopycatUCI is the bestmove reply.
C4_StopRepliesAtOnce ==
    [][(build = "core" /\ pc = "searching" /\ stopPending)
          => (pc' = "idle" /\ Len(BestMoves(out')) = 1)]_vars

\* C5: on a position with exactly one legal move the selector returns that
\* move and computes no score for it.
C5_SingleMoveIsNotScored ==
    /\ (build \in {"core", "v10"} /\ pc = "searching" /\ Len(LegalMoves(board)) = 1)
          => (pending = LegalMoves(board)[1] /\ scored = {})
    /\ (build = "v3" /\ lastCmd = "select_move" /\ running
        /\ Len(LegalMoves(BeforeLast(board))) = 1)
          => (pending = LegalMoves(BeforeLast(board))[1] /\ scored = {})

\* C6: every isready is answered with readyok, also when the lazy load of
\* the model fails.
C6_IsReadyPrintsReadyok ==
    (build \in {"root", "core"} /\ lastCmd = "isready") => Line("readyok", "") \in SeqToSet(out)

\* C7: after ucinewgame the position is the start position and the opening
\* detected in the earlier game is cleared.
C7_NewGameClearsOpening ==
    (build = "core" /\ lastCmd = "ucinewgame")
        => (board = StartBoard /\ opening_detected = "None")

\* the board a position command names when all of it is well formed: the
\* base, then every move of the list, each legal where it is played
RECURSIVE AllLegalFrom(_, _)
AllLegalFrom(b, ms) ==
    ms = <<>> \/ (IsLegal(b, Head(ms)) /\ AllLegalFrom(Push(b, Head(ms)), Tail(ms)))

\* the board after the longest legal prefix of the move list
RECURSIVE AfterLegalPrefix(_, _)
AfterLegalPrefix(b, ms) ==
    IF ms # <<>> /\ IsLegal(b, Head(ms)) THEN AfterLegalPrefix(Push(b, Head(ms)), Tail(ms))
    ELSE b

\* the tokens between the base keyword and "moves", and the move list
BaseTokens(args) == SubSeq(args, 2, MovesIndex(args, 1) - 1)
MoveTokensOf(args) == From(args, MovesIndex(args, 1) + 1)

\* the base a position command names, when it names one
HasValidBase(args) ==
    /\ args # <<>>
    /\ \/ (args[1] = "startpos" /\ BaseTokens(args) = <<>>)
       \/ (args[1] = "fen" /\ FenValid(BaseTokens(args)))

NamedBase(args) == IF args[1] = "startpos" THEN StartBoard ELSE FenBoard(BaseTokens(args))

\* a position command with a FEN or a move token that is not valid
MalformedPosition(args) ==
    /\ args # <<>>
    /\ ~(HasValidBase(args) /\ AllLegalFrom(NamedBase(args), MoveTokensOf(args)))

\* the last valid positions of a malformed position command: the position
\* before it, the start position, and the base of the command with the
\* moves before the first invalid one
LastValidBoards(b, args) ==
    {b, StartBoard}
    \cup (IF HasValidBase(args) THEN {AfterLegalPrefix(NamedBase(args), MoveTokensOf(args))}
          ELSE {})

\* the base keyword is there and the fault is in the FEN or in a move token
FaultInFenOrMove(args) ==
    \/ args[1] = "fen"
    \/ (args[1] = "startpos" /\ BaseTokens(args) = <<>>)

C9_UnknownCommandChangesNothing ==
    [][(build \in UciBuilds /\ running /\ pc = "idle"
        /\ lastCmd' \notin Recognized(build) \cup {"none", "select_move"})
          => /\ running' /\ pc' = "idle"
             /\ board' = board
             /\ tc' = tc
             /\ <<current_phase, opening_detected, move_count>>'
                    = <<current_phase, opening_detected, move_count>>
             /\ <<debug_mode, initialized, ai>>' = <<debug_mode, initialized, ai>>
             /\ OnlyInfo(out')]_vars

\* an unknown word was handled in a state that differs from the initial one
C9_Witness ==
    /\ build = "core"
    /\ lastCmd = "xyzzy"
    /\ debug_mode
    /\ out # <<>>
    /\ board # StartBoard
    /\ ~IsNone(tc.movetime)
    /\ opening_detected # "None"
    /\ running

\* C10: when scoring or selection fails during a move selection on a
\* position with legal moves, the failure is caught where select_move is
\* called, a legal move is returned and it is answered with bestmove.
C10_ScorerFailureIsAnswered ==
    (build \in {"core", "root", "v3"} /\ lastCmd \in {"go", "select_move"} /\ failed)
        => /\ running
           /\ (build = "v3" => IsLegal(BeforeLast(board), pending))
           /\ (build # "v3" => /\ Len(BestMoves(out)) = 1
                               /\ IsLegal(board, BestMoves(out)[1].a))

\* ----------------------------------------------------------------------
\* Think time as a function of the clock
\* ----------------------------------------------------------------------
\* a non-negative rational n/d, d > 0, in milliseconds, in lowest terms
RECURSIVE GCD(_, _)
GCD(a, b) == IF b = 0 THEN a ELSE GCD(b, a % b)
Frac(n, d) == [num |-> n \div GCD(n, d), den |-> d \div GCD(n, d)]
FLe(x, y) == x.num * y.den <= y.num * x.den
FMin(x, y) == IF FLe(x, y) THEN x ELSE y
FMax(x, y) == IF FLe(x, y) THEN y ELSE x

\* board.is_check() on the positions of the model
IsCheck(b) == b.base = "fenMate" /\ b.stack = <<>>

\* complexity_multiplier of UCIEngine.calculate_think_time, in fiftieths
\* (1.2, 0.8 or 1.0, times 1.3 in check); num_pieces counts every occupied
\* square, the two kings included
ComplexityMultiplier(b) ==
    LET num_pieces == PieceCount(b) + 2
        phase == IF num_pieces <= 10 THEN 12 ELSE IF num_pieces >= 28 THEN 8 ELSE 10
    IN  IF IsCheck(b) THEN (phase * 13) \div 2 ELSE phase * 5

\* UCIEngine.calculate_think_time, in milliseconds as a fraction (the code
\* returns seconds), or the exception raised
calculate_think_time_root(b, p) ==
    IF ~IsNone(p.movetime) THEN [t |-> Frac(Val(p.movetime), 1), exc |-> "none"]
    ELSE IF IsNone(p.wtime) /\ IsNone(p.btime) THEN [t |-> Frac(1000, 1), exc |-> "none"]
    ELSE LET time_left == IF Turn(b) THEN p.wtime ELSE p.btime
             inc == IF Turn(b) THEN p.winc ELSE p.binc
         IN  IF IsNone(time_left) THEN [t |-> Frac(1000, 1), exc |-> "none"]
             ELSE LET R == Val(time_left)
                      i == IF IsNone(inc) THEN 0 ELSE Val(inc)
                      moves_left == IF IsNone(p.movestogo) THEN 30 ELSE Val(p.movestogo)
                      \* (R / moves_left + 0.8 i) * multiplier
                      think_time == Frac((5 * R + 4 * i * moves_left) * ComplexityMultiplier(b),
                                         250 * moves_left)
                      max_time == FMin(Frac(R, 10), Frac(30000, 1))
                      emergency_time == Frac(100, 1)
                  IN  IF moves_left = 0 THEN [t |-> Frac(0, 1), exc |-> "ZeroDivisionError"]
                      ELSE [t |-> FMax(FMin(think_time, max_time), emergency_time),
                            exc |-> "none"]

\* clocks, increments and movestogo values a go command can carry
ClockValues == {0, 1, 2, 3, 100, 299, 300, 1000, 3000, 60000}
IncValues == {None, Some(0), Some(100), Some(2000)}
MovesToGoValues == {None, Some(0), Some(1), Some(40)}
ClockParams ==
    {[NoParams EXCEPT !.wtime = Some(R), !.btime = Some(R), !.winc = i, !.binc = i,
                      !.movestogo = m] :
        R \in ClockValues, i \in IncValues, m \in MovesToGoValues}
    \cup {[NoParams EXCEPT !.movetime = Some(1000)], NoParams}

\* the controller with a position set and the parameters of a go parsed
ThinkInit ==
    /\ build \in {"core", "root"}
    /\ env \in [timing_data : BOOLEAN, ai_modules : {FALSE}]
    /\ (build = "root" => ~env.timing_data)
    /\ running = TRUE
    /\ board \in V3Boards
    /\ tc \in ClockParams
    /\ debug_mode = FALSE
    /\ current_phase \in (IF build = "core" THEN {"opening", "middlegame", "endgame"}
                          ELSE {"opening"})
    /\ opening_detected = "None"
    /\ move_count = 0
    /\ initialized = TRUE
    /\ ai = "None"
    /\ pc = "idle"
    /\ sleepLeft = 0
    /\ pending = "None"
    /\ stopPending = FALSE
    /\ lastCmd = "none"
    /\ lastArgs = <<>>
    /\ out = <<>>
    /\ scored = {}
    /\ failed = FALSE
    /\ clock = 0

\* think_time = self.calculate_think_time() of CopycatUCI.go
ThinkCore ==
    /\ build = "core"
    /\ pc = "idle"
    /\ LET r == calculate_think_time(board, tc, current_phase, env.timing_data)
       IN  /\ sleepLeft' = Frac(r.ms, 1)
           /\ pending' = r.exc
    /\ pc' = "timed"
    /\ UNCHANGED <<clock, build, env, running, board, tc, debug_mode, current_phase, opening_detected,
                   move_count, initialized, ai, stopPending, lastCmd, lastArgs, out, scored,
                   failed>>

\* think_time = self.calculate_think_time() of UCIEngine.handle_go
ThinkRoot ==
    /\ build = "root"
    /\ pc = "idle"
    /\ LET r == calculate_think_time_root(board, tc)
       IN  /\ sleepLeft' = r.t
           /\ pending' = r.exc
    /\ pc' = "timed"
    /\ UNCHANGED <<clock, build, env, running, board, tc, debug_mode, current_phase, opening_detected,
                   move_count, initialized, ai, stopPending, lastCmd, lastArgs, out, scored,
                   failed>>

ThinkNext == ThinkCore \/ ThinkRoot

SpecThink == ThinkInit /\ [][ThinkNext]_vars

\* the think time was derived from the clock: no movetime, and a clock
\* value for the side to move
ClockDerived ==
    /\ pc = "timed"
    /\ IsNone(tc.movetime)
    /\ ~IsNone(IF Turn(board) THEN tc.wtime ELSE tc.btime)
Remaining == Frac(Val(IF Turn(board) THEN tc.wtime ELSE tc.btime), 1)
\* the floor each controller reserves: max(.., 1) ms and emergency_time
MinimumFloor == IF build = "core" THEN Frac(1, 1) ELSE Frac(100, 1)

safety_margin == 50

\* the longest scoring the model follows, milliseconds
MaxScoringMs == 600

\* the time one step of scoring can take
ScoringSteps == {safety_margin, TickMs}

TimedGoArgs == {<<"movetime", t>> : t \in {"0", "1", "100", "900", "1000"}}

\* CopycatUCI after position, waiting for a command
TimeInit ==
    /\ build = "core"
    /\ env \in [timing_data : BOOLEAN, ai_modules : {FALSE}]
    /\ running = TRUE
    /\ board \in V3Boards
    /\ tc = NoParams
    /\ debug_mode \in BOOLEAN
    /\ current_phase = "opening"
    /\ opening_detected = "None"
    /\ move_count = 0
    /\ initialized = FALSE
    /\ ai = "None"
    /\ pc = "idle"
    /\ sleepLeft = 0
    /\ pending = "None"
    /\ stopPending = FALSE
    /\ lastCmd = "position"
    /\ lastArgs = <<>>
    /\ out = <<>>
    /\ scored = {}
    /\ failed = FALSE
    /\ clock = 0

\* CopycatUCI.go up to start_time = time.time(): the parameters, the think
\* time (kept in sleepLeft until the sleep is computed) and the debug lines
GoTimed(args) ==
    /\ Reads("go")
    /\ build = "core"
    /\ LET pro == GoPrologueCore(board, args, current_phase, env.timing_data)
       IN  /\ pro.exc = "none"
           /\ tc' = pro.p
           /\ sleepLeft' = pro.ms
           /\ Handled("go", args,
                      IF debug_mode THEN <<Info("thinking"), Info("Position FEN")>> ELSE <<>>)
    /\ pc' = "scoring"
    /\ scored' = {}
    /\ failed' = FALSE
    /\ UNCHANGED <<build, env, running, board, debug_mode, current_phase, opening_detected,
                   move_count, initialized, ai, pending>>

\* time passes inside self.engine.select_move: nothing in it looks at a clock
ScoringTick ==
    /\ running
    /\ pc = "scoring"
    /\ \E d \in ScoringSteps :
         /\ clock + d <= MaxScoringMs
         /\ clock' = clock + d
    /\ UNCHANGED <<build, env, running, board, tc, debug_mode, current_phase, opening_detected,
                   move_count, initialized, ai, pc, sleepLeft, pending, stopPending, lastCmd,
                   lastArgs, out, scored, failed>>

\* select_move returns after `clock` milliseconds; go computes elapsed and
\* sleeps for think_time - elapsed when that is positive
ScoringDone ==
    /\ running
    /\ pc = "scoring"
    /\ \E sc \in ScoringInputs(board) :
         LET sel == SelectMoveResult(search_best_move(board, sc.score, sc.fails, sc.pick))
             eng == EngineAfter(board, opening_detected)
             lines == out \o SelectLines(board, opening_detected, sel)
         IN  /\ current_phase' = eng.current_phase
             /\ opening_detected' = eng.opening_detected
             /\ move_count' = eng.move_count
             /\ scored' = sel.scored
             /\ failed' = (sel.exc # "none")
             /\ IF sel.exc # "none"
                THEN /\ out' = LoopCatch(build, debug_mode, lines)
                     /\ running' = LoopSurvives(build, sel.exc)
                     /\ pc' = "idle"
                     /\ sleepLeft' = 0
                     /\ UNCHANGED pending
                ELSE /\ out' = lines
                     /\ pc' = "searching"
                     /\ sleepLeft' = (IF clock < sleepLeft /\ ~tc.infinite
                                      THEN sleepLeft - clock ELSE 0)
                     /\ pending' = sel.move
                     /\ UNCHANGED running
    /\ UNCHANGED <<build, env, board, tc, debug_mode, initialized, ai, stopPending, lastCmd,
                   lastArgs, clock>>

TimeNext ==
    \/ \E args \in TimedGoArgs : GoTimed(args)
    \/ ScoringTick
    \/ ScoringDone
    \/ SleepTick
    \/ GoReply

SpecTime == TimeInit /\ [][TimeNext]_vars

\* go movetime T has printed its bestmove and no stop was sent
RepliedToMovetime ==
    /\ lastCmd = "go"
    /\ pc = "idle"
    /\ ~IsNone(tc.movetime)
    /\ ~stopPending
    /\ BestMoves(out) # <<>>

\* C12: with no stop, the reply to go movetime T is printed no earlier than
\* T ms after the request and no later than T plus the safety margin
C12_ReplyWithinMovetimeWindow ==
    RepliedToMovetime =>
        /\ clock >= Val(tc.movetime)
        /\ clock <= Val(tc.movetime) + safety_margin

\* C13: the controller passes Idle, Ready, PositionSet, Searching and
\* MoveReturned in that order: a search is never entered from Idle, before
\* any handshake or position command was handled, and a go that has
\* returned to the loop has printed its bestmove
C13_SearchOnlyAfterHandshakeAndPosition ==
    [][/\ (lastCmd = "none" => lastCmd' # "go")
       /\ (lastCmd' = "go" /\ pc' = "idle" /\ build' \in {"core", "v10"} /\ ~failed'
              => BestMoves(out') # <<>>)]_vars

\* ----------------------------------------------------------------------
\* The phase classifier on every kind of position
\* ----------------------------------------------------------------------
\* what detect_game_phase reads of a position: the number of pawns, knights,
\* bishops, rooks and queens of both sides, the number of queens among
\* them, whether any castling right is left, and board.fullmove_number
PhaseInputs ==
    {f \in [pieces : 0..30, queens : 0..3, castling : BOOLEAN, fullmove : {1, 14, 15, 16, 40}] :
        f.queens <= f.pieces}

\* the engine before select_move is called with a position
PhaseInit ==
    /\ build = "core"
    /\ env = [timing_data |-> FALSE, ai_modules |-> FALSE]
    /\ running = TRUE
    /\ board \in PhaseInputs
    /\ tc = NoParams
    /\ debug_mode = FALSE
    /\ current_phase = "None"
    /\ opening_detected = "None"
    /\ move_count = 0
    /\ initialized = FALSE
    /\ ai = "None"
    /\ pc = "idle"
    /\ sleepLeft = 0
    /\ pending = "None"
    /\ stopPending = FALSE
    /\ lastCmd = "none"
    /\ lastArgs = <<>>
    /\ out = <<>>
    /\ scored = {}
    /\ failed = FALSE
    /\ clock = 0

\* self.current_phase = self.detect_game_phase(board)
Classify ==
    /\ pc = "idle"
    /\ current_phase' = PhaseOf(board.pieces, board.queens, board.castling, board.fullmove)
    /\ pc' = "classified"
    /\ UNCHANGED <<build, env, running, board, tc, debug_mode, opening_detected, move_count,
                   initialized, ai, sleepLeft, pending, stopPending, lastCmd, lastArgs, out,
                   scored, failed, clock>>

PhaseNext == Classify

SpecPhase == PhaseInit /\ [][PhaseNext]_vars

\* the Opening and Endgame conditions as the specification words them
OpeningCondition == board.pieces >= 14 /\ board.castling /\ board.fullmove <= 15
EndgameCondition == board.pieces <= 10 \/ board.queens = 0

\* C14: the classifier returns Opening exactly when the non-king piece
\* count is at least 14, a castling right is left and the full-move number
\* is at most 15
C14_OpeningIff ==
    pc = "classified" => ((current_phase = "opening") <=> OpeningCondition)

\* the boundary: exactly 14 pieces at move 15 with a castling right
C14_Witness ==
    /\ pc = "classified"
    /\ board.pieces = 14 /\ board.fullmove = 15 /\ board.castling
    /\ current_phase = "opening"

\* C15 as stated: the classifier returns Endgame exactly when at most 10
\* non-king pieces or no queens remain, also where the Opening condition
\* holds
C15_EndgameIff ==
    pc = "classified" => ((current_phase = "endgame") <=> EndgameCondition)

\* C15 amended: the classifier returns Endgame exactly when at most 10
\* non-king pieces or no queens remain and the Opening condition does not
\* hold; where both hold it returns Opening
C15_EndgameIffNotOpening ==
    pc = "classified" =>
        /\ (current_phase = "endgame") <=> (EndgameCondition /\ ~OpeningCondition)
        /\ (EndgameCondition /\ OpeningCondition) => current_phase = "opening"

\* a queenless position past the opening, classified as endgame
C15_Witness ==
    /\ pc = "classified"
    /\ board.queens = 0 /\ board.pieces >= 14 /\ board.castling /\ board.fullmove = 16
    /\ current_phase = "endgame"

\* ----------------------------------------------------------------------
\* The component scores of SearchManager.score_candidate
\* ----------------------------------------------------------------------
\* the score 1.0; every score of this section is in ten-thousandths
ScoreUnit == 10000

\* numbers a loaded analysis file can hold where the code reads one
DataValues == {-2 * ScoreUnit, 0, ScoreUnit \div 2, 3 * ScoreUnit}

\* self.analysis_data as far as the scorers read it: loaded is FALSE when
\* no file was loaded; move_freq is None when the move is not in common_moves
AnalysisData ==
    {d \in [loaded : BOOLEAN, move_freq : {None} \cup {Some(v) : v \in DataValues},
            capture_weight : DataValues, tactical : DataValues, positional : DataValues] :
        ~d.loaded => (d.move_freq = None /\ d.capture_weight = 0 /\ d.tactical = 0
                      /\ d.positional = 0)}

\* a candidate move as the scorers see it: the base preference of its piece,
\* whether the phase rule raises it, what the move does, the value of its
\* square in the loaded piece-square table (None when absent) with the
\* least and greatest value of that table, the default square and opening
\* values of the move, and the blend of the four positional factors
Candidates ==
    {c \in [base : {5000, 9000}, phase_bonus : BOOLEAN, is_capture : BOOLEAN,
            gives_check : BOOLEAN, favorable : BOOLEAN, attacked : BOOLEAN,
            square : {None, Some(<<0, 0, 0>>), Some(<<0, -2 * ScoreUnit, 3 * ScoreUnit>>)},
            blend : {2000, 8000}] :
        /\ (c.favorable => c.is_capture)
        /\ (c.attacked => c.gives_check)
        /\ (c.phase_bonus => c.base = 9000)}

\* calculate_piece_preference: the base score times 1.2 (or 1.1) by phase,
\* 1.1 for a capture, 1.15 for a check, capped at 1.0
calculate_piece_preference(c, phase) ==
    LET a == IF ~c.phase_bonus THEN 10 ELSE IF phase = "middlegame" THEN 11 ELSE 12
        b == IF c.is_capture THEN 11 ELSE 10
        k == IF c.gives_check THEN 115 ELSE 100
    IN  Min((c.base * a * b * k) \div 10000, ScoreUnit)

\* calculate_square_preference: the table value normalised over the range
\* of the table, 0.5 for a flat table, a default without a table
calculate_square_preference(c, data) ==
    IF data.loaded /\ ~IsNone(c.square)
    THEN LET v == Val(c.square)[1]
             min_val == Val(c.square)[2]
             range_val == Val(c.square)[3] - Val(c.square)[2]
         IN  IF range_val > 0 THEN TruncDiv((v - min_val) * ScoreUnit, range_val)
             ELSE ScoreUnit \div 2
    ELSE IF c.base = 9000 THEN 9500 ELSE 4000

\* calculate_opening_score: the frequency stored for the move, returned as
\* it is, or a default by opening principles
calculate_opening_score(c, data) ==
    IF data.loaded /\ ~IsNone(data.move_freq) THEN Val(data.move_freq)
    ELSE IF c.base = 9000 THEN 8000 ELSE 5000

\* calculate_decisiveness_score: 0.5 plus the weights of what the move
\* does, capped at 1.0
calculate_decisiveness_score(c, data) ==
    LET capture_weight == IF data.loaded THEN data.capture_weight ELSE 2000
        score == 5000
                 + (IF c.is_capture THEN capture_weight ELSE 0)
                 + (IF c.gives_check THEN 3000 ELSE 0)
                 + (IF c.favorable THEN 2000 ELSE 0)
                 + (IF c.attacked THEN 1000 ELSE 0)
    IN  Min(score, ScoreUnit)

\* calculate_positional_score: the blend of the four factors, moved away
\* from 0.5 by the style preference, kept within [0, 1]
calculate_positional_score(c, data) ==
    LET score == IF data.loaded
                 THEN 5000 + TruncDiv((c.blend - 5000) * (data.positional \div 100) * 15, 1000)
                 ELSE c.blend
    IN  Min(Max(score, 0), ScoreUnit)

\* calculate_tactical_score: the best tactical element of the move, 0.4
\* without one, times 0.7 + 0.6 * the style preference, capped at 1.0
calculate_tactical_score(c, data) ==
    LET material_score == IF c.favorable THEN 9000 ELSE 5000
        capture == IF c.is_capture THEN 3000 + (4 * material_score) \div 10 ELSE 0
        check == IF c.gives_check THEN 7000 ELSE 0
        tactical_score == IF c.is_capture \/ c.gives_check THEN Max(capture, check) ELSE 4000
        styled == IF data.loaded
                  THEN TruncDiv(tactical_score * (7000 + (6 * data.tactical) \div 10), ScoreUnit)
                  ELSE tactical_score
    IN  Min(styled, ScoreUnit)

\* score_candidate up to the weighted sum: the six component scores of a
\* MoveCandidate, 0.0 where the phase leaves a component uncomputed
score_candidate(c, phase, opening, data) ==
    [piece_preference |-> calculate_piece_preference(c, phase),
     square_preference |-> calculate_square_preference(c, data),
     opening_pattern |-> IF phase = "opening" /\ opening # "None"
                         THEN calculate_opening_score(c, data) ELSE 0,
     decisiveness |-> IF phase = "middlegame"
                      THEN calculate_decisiveness_score(c, data) ELSE 0,
     positional |-> calculate_positional_score(c, data),
     tactical |-> calculate_tactical_score(c, data)]

\* the search manager with its data loaded and one candidate to score
ScoreInit ==
    /\ build = "core"
    /\ env \in AnalysisData
    /\ running = TRUE
    /\ board = StartBoard
    /\ tc = NoParams
    /\ debug_mode = FALSE
    /\ current_phase \in {"opening", "middlegame", "endgame"}
    /\ opening_detected \in {"None", "Caro-Kann"}
    /\ (current_phase # "opening" => opening_detected = "None")
    /\ move_count = 0
    /\ initialized = FALSE
    /\ ai = "None"
    /\ pc = "idle"
    /\ sleepLeft = 0
    /\ pending \in Candidates
    /\ stopPending = FALSE
    /\ lastCmd = "none"
    /\ lastArgs = <<>>
    /\ out = <<>>
    /\ scored = {}
    /\ failed = FALSE
    /\ clock = 0

\* self.score_candidate(candidate, board, current_phase, opening_detected, weights)
ScoreCandidate ==
    /\ pc = "idle"
    /\ scored' = score_candidate(pending, current_phase, opening_detected, env)
    /\ pc' = "scored"
    /\ UNCHANGED <<build, env, running, board, tc, debug_mode, current_phase, opening_detected,
                   move_count, initialized, ai, sleepLeft, pending, stopPending, lastCmd,
                   lastArgs, out, failed, clock>>

ScoreNext == ScoreCandidate

SpecScore == ScoreInit /\ [][ScoreNext]_vars

InUnit(x) == 0 <= x /\ x <= ScoreUnit

\* C16: each of the six component scores lies in [0, 1] when it enters the
\* weighted combination, whatever the loaded analysis data holds
C16_ComponentsInUnitInterval ==
    pc = "scored" =>
        /\ InUnit(scored.piece_preference)
        /\ InUnit(scored.square_preference)
        /\ InUnit(scored.opening_pattern)
        /\ InUnit(scored.decisiveness)
        /\ InUnit(scored.positional)
        /\ InUnit(scored.tactical)

\* ----------------------------------------------------------------------
\* The final selection among scored candidates
\* ----------------------------------------------------------------------
\* a position with four legal moves, next to those with two
WideBoard == [base |-> "fenWide", stack |-> <<>>]
SelectBoards == {WideBoard, StartBoard, [base |-> "fenEnd", stack |-> <<>>]}

\* overall scores of candidates; the pattern scores of CopycatEngineV3 are
\* sums of non-negative bonuses
SelectScores(bld) == IF bld = "v3" THEN {0, 1, 2} ELSE {-1, 0, 2}

\* the selector with the candidates of a position scored: lastArgs holds
\* the score of each legal move
SelectInit ==
    /\ build \in {"core", "v3"}
    /\ env = [timing_data |-> FALSE, ai_modules |-> FALSE]
    /\ running = TRUE
    /\ board \in SelectBoards
    /\ tc = NoParams
    /\ debug_mode = FALSE
    /\ current_phase = "middlegame"
    /\ opening_detected = "None"
    /\ move_count = 0
    /\ initialized = FALSE
    /\ ai = "None"
    /\ pc = "idle"
    /\ sleepLeft = 0
    /\ pending = "None"
    /\ stopPending = FALSE
    /\ lastCmd = "none"
    /\ lastArgs \in [SeqToSet(LegalMoves(board)) -> SelectScores(build)]
    /\ out = <<>>
    /\ scored = {}
    /\ failed = FALSE
    /\ clock = 0

\* the sort and the weighted draw of SearchManager.search_best_move
SelectCore ==
    /\ build = "core"
    /\ pc = "idle"
    /\ \E pick \in SeqToSet(LegalMoves(board)) :
         LET sel == search_best_move(board, lastArgs, FALSE, pick)
         IN  /\ pending' = sel.move
             /\ scored' = sel.scored
    /\ pc' = "selected"
    /\ UNCHANGED <<build, env, running, board, tc, debug_mode, current_phase, opening_detected,
                   move_count, initialized, ai, sleepLeft, stopPending, lastCmd, lastArgs, out,
                   failed, clock>>

\* CopycatEngineV3._select_final_move on the scored moves
SelectV3 ==
    /\ build = "v3"
    /\ pc = "idle"
    /\ \E pick \in SeqToSet(LegalMoves(board)) :
         pending' = SelectFinalMove(LegalMoves(board), lastArgs, pick)
    /\ scored' = SeqToSet(LegalMoves(board))
    /\ pc' = "selected"
    /\ UNCHANGED <<build, env, running, board, tc, debug_mode, current_phase, opening_detected,
                   move_count, initialized, ai, sleepLeft, stopPending, lastCmd, lastArgs, out,
                   failed, clock>>

SelectNext == SelectCore \/ SelectV3

SpecSelect == SelectInit /\ [][SelectNext]_vars

\* the three best by the sort (all of them when fewer) and their scores
\* after the shift by the least of them when that is negative
TopThree == SeqToSet(TopMoves(SortDesc(LegalMoves(board), lastArgs), 3))
ShiftedScore(m) ==
    LET lo == MinScore(TopMoves(SortDesc(LegalMoves(board), lastArgs), 3), lastArgs)
    IN  IF lo < 0 THEN lastArgs[m] - lo ELSE lastArgs[m]
\* fewer than three candidates score strictly higher than m
AmongThreeHighest(m) ==
    Cardinality({x \in SeqToSet(LegalMoves(board)) : lastArgs[x] > lastArgs[m]}) < 3

\* C17 as stated: the selected move is one of the three highest-scored
\* candidates, and a candidate whose shifted score is zero is selected
\* only when all three shifted scores are zero
C17_TopThreeAndNoZeroWeight ==
    pc = "selected" =>
        /\ pending \in TopThree
        /\ AmongThreeHighest(pending)
        /\ (ShiftedScore(pending) = 0 => \A m \in TopThree : ShiftedScore(m) = 0)

\* C17 amended: in both selectors the selected move is one of the three
\* highest-scored candidates; in SearchManager.search_best_move a candidate
\* of shifted score zero is selected only when all three shifted scores
\* are zero (CopycatEngineV3 draws with the weights score + 1 instead)
C17_TopThreeAndNoZeroWeightInSearchManager ==
    pc = "selected" =>
        /\ pending \in TopThree
        /\ AmongThreeHighest(pending)
        /\ (build = "core" /\ ShiftedScore(pending) = 0)
               => \A m \in TopThree : ShiftedScore(m) = 0

\* four candidates, the three best all of shifted score zero, and the
\* third of them selected by SearchManager
C17_Witness ==
    /\ pc = "selected"
    /\ build = "core"
    /\ board = WideBoard
    /\ \A m \in TopThree : ShiftedScore(m) = 0
    /\ pending = TopMoves(SortDesc(LegalMoves(board), lastArgs), 3)[3]

\* ----------------------------------------------------------------------
\* The tactical-safety filter of CopycatEngineV3
\* ----------------------------------------------------------------------
\* what select_move meets on a position: the moves _filter_tactical_blunders
\* flags (the position after the move is checkmate, or _loses_material_badly
\* holds: a queen or rook moved without capture onto an attacked square) and
\* the pattern score of each move
FilterInputs(b) ==
    [unsafe : SUBSET SeqToSet(LegalMoves(b)),
     score : [SeqToSet(LegalMoves(b)) -> SelectScores("v3")]]

\* CopycatEngineV3 called on a position with several legal moves
FilterInit ==
    /\ build = "v3"
    /\ env = [timing_data |-> FALSE, ai_modules |-> FALSE]
    /\ running = TRUE
    /\ board \in SelectBoards
    /\ tc = NoParams
    /\ debug_mode = FALSE
    /\ current_phase = "middlegame"
    /\ opening_detected = "None"
    /\ move_count = 0
    /\ initialized = FALSE
    /\ ai = "None"
    /\ pc = "idle"
    /\ sleepLeft = 0
    /\ pending = "None"
    /\ stopPending = FALSE
    /\ lastCmd = "none"
    /\ lastArgs \in FilterInputs(board)
    /\ out = <<>>
    /\ scored = {}
    /\ failed = FALSE
    /\ clock = 0

\* select_move: filter, score, select. The patterns the scorers read are
\* the constants of copycat_patterns.py, each opening entry with a numeric
\* weight, so the scoring pass does not raise here
FilterAndSelect ==
    /\ pc = "idle"
    /\ \E pick \in SeqToSet(LegalMoves(board)) :
         LET r == V3Select(board, lastArgs.unsafe, lastArgs.score, FALSE, pick, pick)
         IN  /\ pending' = r.move
             /\ scored' = r.scored
             /\ move_count' = (IF r.counted THEN move_count + 1 ELSE move_count)
    /\ pc' = "selected"
    /\ UNCHANGED <<build, env, running, board, tc, debug_mode, current_phase, opening_detected,
                   initialized, ai, sleepLeft, stopPending, lastCmd, lastArgs, out, failed,
                   clock>>

FilterNext == FilterAndSelect

SpecFilter == FilterInit /\ [][FilterNext]_vars

OpeningCap == 500
EndgameCap == 50
\* minimum sample sizes
MinOpeningCount == 10
MinEndgameCount == 5

\* sorted(items, key=weight, reverse=True): by weight descending, items of
\* equal weight in the order they had (Python's sort is stable, also
\* with reverse=True). ws is the set of weights still to be placed, the
\* least of them next and behind the others
RECURSIVE SortedByWeight(_, _, _)
SortedByWeight(items, ws, placed) ==
    IF ws = {} THEN placed
    ELSE LET w == CHOOSE x \in ws : \A y \in ws : x <= y
             has(e) == e.weight = w
         IN  SortedByWeight(items, ws \ {w}, SelectSeq(items, has) \o placed)
\* the items left in dict order
SortedAsGiven(items) == items
SortedDesc(items) == SortedByWeight(items, {items[i].weight : i \in 1..Len(items)}, <<>>)

\* round(n / d, 0) for n >= 0, d > 0: to the nearest integer, a tie to the
\* even one (no endgame corpus below has a tie)
RoundDiv(n, d) ==
    LET q == n \div d
        r == n % d
    IN  IF 2 * r < d THEN q
        ELSE IF 2 * r > d THEN q + 1
        ELSE IF q % 2 = 0 THEN q ELSE q + 1

\* the opening compression asking for more than the minimum sample size
CompressOpeningAboveMinimum(opening_patterns) ==
    LET good(d) == d.count > MinOpeningCount /\ 10 * d.wins2 >= 9 * d.count
        kept == SelectSeq(opening_patterns, good)
        compressed == [i \in 1..Len(kept) |->
                         [key |-> kept[i].key, frequency |-> Min(kept[i].count, 1000),
                          weight |-> kept[i].wins2]]
        sorted_patterns ==
            SortedByWeight(compressed, {compressed[i].weight : i \in 1..Len(compressed)}, <<>>)
    IN  SubSeq(sorted_patterns, 1, Min(OpeningCap, Len(sorted_patterns)))

\* the opening compression without the slice [:500]
CompressOpeningUncapped(opening_patterns) ==
    LET good(d) == d.count >= MinOpeningCount /\ 10 * d.wins2 >= 9 * d.count
        kept == SelectSeq(opening_patterns, good)
        compressed == [i \in 1..Len(kept) |->
                         [key |-> kept[i].key, frequency |-> Min(kept[i].count, 1000),
                          weight |-> kept[i].wins2]]
    IN  SortedByWeight(compressed, {compressed[i].weight : i \in 1..Len(compressed)}, <<>>)

\* _compress_opening_patterns on self.opening_patterns, a dict given as the
\* sequence of its items in insertion order, which is the order in which
\* the keys were first seen. An item is [key, count, wins2], wins2 twice
\* the sum of results (results are 1.0, 0.5 and 0.0). success_rate >= 0.45
\* is 10 * wins2 >= 9 * count; weight = success_rate * count / 100 =
\* wins2 / 200 has at most three decimals, so round(.., 3) leaves it as it
\* is: weight is kept as wins2, in units of 0.005. frequency is in
\* thousandths. The success field, a rounded number nothing reads again,
\* is left out
CompressOpening(opening_patterns) ==
    LET good(d) == d.count >= MinOpeningCount /\ 10 * d.wins2 >= 9 * d.count
        kept == SelectSeq(opening_patterns, good)
        compressed == [i \in 1..Len(kept) |->
                         [key |-> kept[i].key, frequency |-> Min(kept[i].count, 1000),
                          weight |-> kept[i].wins2]]
        sorted_patterns == SortedDesc(compressed)
    IN  SubSeq(sorted_patterns, 1, Min(OpeningCap, Len(sorted_patterns)))

\* _compress_endgame_patterns on self.endgame_patterns: an item is
\* [key, count, success2]; the value kept is round(success_rate, 3), in
\* thousandths
CompressEndgame(endgame_patterns) ==
    LET good(d) == d.count >= MinEndgameCount
        kept == SelectSeq(endgame_patterns, good)
        compressed == [i \in 1..Len(kept) |->
                         [key |-> kept[i].key,
                          weight |-> RoundDiv(1000 * kept[i].success2, 2 * kept[i].count)]]
        sorted_endgames == SortedDesc(compressed)
    IN  SubSeq(sorted_endgames, 1, Min(EndgameCap, Len(sorted_endgames)))

\* corpora: what analyze_games leaves in opening_patterns and
\* endgame_patterns. Small ones take the counts and results around the
\* thresholds (a key has at most one win per record); large ones have
\* about as many keys as the caps
OpeningItems ==
    {d \in [count : {9, 10, 1200}, wins2 : {8, 9, 18, 1080}] : d.wins2 <= 2 * d.count}
SmallOpenings ==
    {<<>>} \cup {<<[key |-> 1, count |-> a.count, wins2 |-> a.wins2]>> : a \in OpeningItems}
    \cup {<<[key |-> 1, count |-> a.count, wins2 |-> a.wins2],
            [key |-> 2, count |-> b.count, wins2 |-> b.wins2]>> :
            a \in OpeningItems, b \in [count : {10}, wins2 : {8, 9, 18}]}

\* how many keys in a row of a large corpus share a weight
WeightRun == 50

\* key i of a large corpus: all alike ("flat"), better the later it was
\* seen ("rising"), better the earlier ("falling"), or of three weights in
\* turn with every fifth key short of the sample size and every seventh
\* short of the success rate ("mixed")
LargeOpeningItem(shape, i) ==
    CASE shape = "flat" -> [key |-> i, count |-> 20, wins2 |-> 20]
      [] shape = "rising" -> [key |-> i, count |-> 20 + (i \div WeightRun),
                              wins2 |-> 20 + (i \div WeightRun)]
      [] shape = "falling" -> [key |-> i, count |-> 40 - (i \div WeightRun),
                               wins2 |-> 40 - (i \div WeightRun)]
      [] OTHER -> [key |-> i,
                   count |-> IF i % 5 = 0 THEN 9 ELSE 40,
                   wins2 |-> IF i % 7 = 0 THEN 2
                             ELSE IF i % 5 = 0 THEN 18 ELSE 38 + (i % 3)]
LargeOpenings ==
    {[i \in 1..n |-> LargeOpeningItem(shape, i)] :
        n \in OpeningCap - 1 .. OpeningCap + 3,
        shape \in {"flat", "rising", "falling"}}
    \cup {[i \in 1..n |-> LargeOpeningItem("mixed", i)] : n \in {730, 731, 732, 760}}

EndgameItem(shape, i) ==
    CASE shape = "flat" -> [key |-> i, count |-> 8, success2 |-> 8]
      [] shape = "rising" -> [key |-> i, count |-> 100, success2 |-> i]
      [] OTHER -> [key |-> i, count |-> IF i % 4 = 0 THEN 4 ELSE 7, success2 |-> i % 5]
Endgames ==
    {[i \in 1..n |-> EndgameItem(shape, i)] :
        n \in {0, 1, EndgameCap - 1, EndgameCap, EndgameCap + 1, EndgameCap + 20},
        shape \in {"flat", "rising", "mixed"}}

Corpora ==
    {[opening |-> o, endgame |-> <<>>] : o \in SmallOpenings \cup LargeOpenings}
    \cup {[opening |-> <<>>, endgame |-> e] : e \in Endgames}
    \cup {[opening |-> o, endgame |-> e] :
            o \in {x \in LargeOpenings : Len(x) = OpeningCap + 3},
            e \in {x \in Endgames : Len(x) = EndgameCap + 20}}

\* the extractor after analyze_games: lastArgs holds the two dicts
CompressInit ==
    /\ build = "extractor"
    /\ env = [timing_data |-> FALSE, ai_modules |-> FALSE]
    /\ running = TRUE
    /\ board = StartBoard
    /\ tc = NoParams
    /\ debug_mode = FALSE
    /\ current_phase = "None"
    /\ opening_detected = "None"
    /\ move_count = 0
    /\ initialized = FALSE
    /\ ai = "None"
    /\ pc = "idle"
    /\ sleepLeft = 0
    /\ pending = "None"
    /\ stopPending = FALSE
    /\ lastCmd = "none"
    /\ lastArgs \in Corpora
    /\ out = <<>>
    /\ scored = {}
    /\ failed = FALSE
    /\ clock = 0

\* generate_compact_patterns: the opening and endgame sections
GenerateCompactPatterns ==
    /\ pc = "idle"
    /\ out' = [opening |-> CompressOpening(lastArgs.opening),
               endgame |-> CompressEndgame(lastArgs.endgame)]
    /\ pc' = "compressed"
    /\ UNCHANGED <<build, env, running, board, tc, debug_mode, current_phase, opening_detected,
                   move_count, initialized, ai, sleepLeft, pending, stopPending, lastCmd,
                   lastArgs, scored, failed, clock>>

CompressNext == GenerateCompactPatterns

SpecCompress == CompressInit /\ [][CompressNext]_vars

\* the keys of the corpus that pass the opening thresholds
Qualifies(d) == d.count >= 10 /\ 10 * d.wins2 >= 9 * d.count
QualifyingKeys == {i \in 1..Len(lastArgs.opening) : Qualifies(lastArgs.opening[i])}

\* C19: the compressed opening table has at most 500 entries and the
\* compressed endgame table at most 50, for every corpus
C19_TablesWithinCaps ==
    pc = "compressed" => (Len(out.opening) <= 500 /\ Len(out.endgame) <= 50)

\* a corpus with more than 500 qualifying opening keys and more than 50
\* endgame signatures, both tables filled to the cap
C19_Witness ==
    /\ pc = "compressed"
    /\ Cardinality(QualifyingKeys) > 500
    /\ Len(lastArgs.endgame) > 50
    /\ Len(out.opening) = 500
    /\ Len(out.endgame) = 50

\* the weight the extractor gives key k: round(wins / 100, 3), in units of 0.005
WeightOf(k) == lastArgs.opening[k].wins2

\* key k ranks before key j: larger weight, or the same weight and seen first
\* (a key is the place of its first appearance in the corpus)
RanksBefore(k, j) ==
    \/ WeightOf(k) > WeightOf(j)
    \/ WeightOf(k) = WeightOf(j) /\ k < j

TableKeys == {out.opening[i].key : i \in 1..Len(out.opening)}

\* C20: the compressed opening table holds exactly the keys with count >= 10
\* and wins / count >= 0.45 that have the 500 largest weights, in the order
\* of weight descending, keys of equal weight in the order they were first
\* seen; a qualifying key is left out only if 500 others rank before it
C20_TopFiveHundredByWeightStable ==
    pc = "compressed" =>
        /\ TableKeys \subseteq QualifyingKeys
        /\ Len(out.opening) = Min(500, Cardinality(QualifyingKeys))
        /\ \A i \in 1..Len(out.opening) : out.opening[i].weight = WeightOf(out.opening[i].key)
        /\ \A i \in 1..Len(out.opening) - 1 :
              RanksBefore(out.opening[i].key, out.opening[i + 1].key)
        /\ \A j \in QualifyingKeys \ TableKeys : \A k \in TableKeys : RanksBefore(k, j)

\* a corpus with more than 500 qualifying keys where the cut falls among
\* keys of equal weight and a key seen later outranks one seen earlier
C20_Witness ==
    /\ pc = "compressed"
    /\ Cardinality(QualifyingKeys) > 500
    /\ \E j \in QualifyingKeys \ TableKeys :
          /\ \E k \in TableKeys : WeightOf(k) = WeightOf(j)
          /\ \E k \in TableKeys : k > j /\ WeightOf(k) > WeightOf(j)

\* ---------------------------------------------------------------------
\* The extraction pipeline: PatternExtractor.analyze_games over PGN files
\* ---------------------------------------------------------------------

\* the longest game of a corpus, in plies
MaxGamePlies == 22

\* a game record as chess.pgn.read_game returns it: the Result header, the
\* number of plies of the main line, the line played, the number of pieces
\* of the starting position (32, or fewer with a FEN header), the material
\* signature of the final position, and whether the record raises: "read"
\* in read_game, "process" in _extract_game_patterns before anything is
\* recorded (game.board() on a FEN header that is not a position)
Game(result, plies, line, start_pieces, material, raises) ==
    [result |-> result, plies |-> plies, line |-> line, start_pieces |-> start_pieces,
     material |-> material, raises |-> raises]

\* ply i of a line: the SAN of the move as a number naming it, and what
\* _analyze_tactical_features finds. The two lines share their first and
\* third moves
MoveOf(line, i) ==
    IF line = "A"
    THEN [san |-> IF i = 3 THEN 3 ELSE 10 + i,
          capture |-> i % 4 = 0, check |-> i % 6 = 0, develops |-> i \in {3, 4}]
    ELSE [san |-> IF i = 3 THEN 3 ELSE IF i = 1 THEN 11 ELSE 40 + i,
          capture |-> i % 3 = 0, check |-> i % 7 = 0, develops |-> i \in {3, 6}]

\* what _analyze_positional_features reads off the board before ply i
FeaturesBefore(line, i) ==
    [center |-> IF line = "A" THEN ((i \div 5) % 3) - 1 ELSE 1,
     kingside |-> i <= 10, queenside |-> i <= 5 /\ line = "A"]

\* len(board.piece_map()) of the final position: a capture takes one piece off
FinalPieces(game) ==
    game.start_pieces - Cardinality({i \in 1..game.plies : MoveOf(game.line, i).capture})

\* a defaultdict as the sequence of its items in insertion order; the place
\* of key, 0 when absent
KeyIndex(d, key) ==
    IF \E i \in 1..Len(d) : d[i].key = key
    THEN CHOOSE i \in 1..Len(d) : d[i].key = key
    ELSE 0

\* _record_opening_move: pattern = opening_patterns[key]; count += 1;
\* wins += result. wins2 is twice the sum of results. The 'draws' field of
\* the default never changes and is left out
record_opening_move(opening_patterns, i, move, result2) ==
    LET key == <<i - 1, move.san>>
        at == KeyIndex(opening_patterns, key)
    IN  IF at = 0
        THEN Append(opening_patterns, [key |-> key, count |-> 1, wins2 |-> result2])
        ELSE [opening_patterns EXCEPT ![at] =
                 [@ EXCEPT !.count = @ + 1, !.wins2 = @ + result2]]

\* _analyze_tactical_features
analyze_tactical_features(tactical_patterns, move) ==
    [captures |-> tactical_patterns.captures + (IF move.capture THEN 1 ELSE 0),
     checks |-> tactical_patterns.checks + (IF move.check THEN 1 ELSE 0),
     development |-> tactical_patterns.development + (IF move.develops THEN 1 ELSE 0)]

\* _analyze_positional_features: the samples appended
analyze_positional_features(samples, f) ==
    samples \o <<[feature |-> "center_control", value |-> f.center]>>
    \o (IF f.kingside THEN <<[feature |-> "white_kingside_castling", value |-> 1]>> ELSE <<>>)
    \o (IF f.queenside THEN <<[feature |-> "white_queenside_castling", value |-> 1]>> ELSE <<>>)

\* _analyze_endgame_patterns on the final position; white is to move there
\* iff the number of plies is even. success2 is twice the success sum
analyze_endgame_patterns(endgame_patterns, game) ==
    IF FinalPieces(game) <= 10
    THEN LET key == game.material
             at == KeyIndex(endgame_patterns, key)
             white_to_move == game.plies % 2 = 0
             gain2 == CASE game.result = "1-0" -> IF white_to_move THEN 2 ELSE 0
                        [] game.result = "0-1" -> IF white_to_move THEN 0 ELSE 2
                        [] game.result = "1/2-1/2" -> 1
                        [] OTHER -> 0
         IN  IF at = 0
             THEN Append(endgame_patterns, [key |-> key, count |-> 1, success2 |-> gain2])
             ELSE [endgame_patterns EXCEPT ![at] =
                      [@ EXCEPT !.count = @ + 1, !.success2 = @ + gain2]]
    ELSE endgame_patterns

\* the loop crediting every ply with White's result
RECURSIVE ExtractPliesWhiteResult(_, _, _)
RECURSIVE ExtractPlies(_, _, _)
ExtractPliesWhiteResult(acc, game, i) ==
    IF i > game.plies THEN acc
    ELSE LET move == MoveOf(game.line, i)
             white2 == CASE game.result = "1/2-1/2" -> 1
                         [] game.result = "1-0" -> 2
                         [] OTHER -> 0
             after ==
                 [acc EXCEPT
                    !.opening_patterns =
                        IF i <= 15 THEN record_opening_move(@, i, move, white2) ELSE @,
                    !.tactical_patterns = analyze_tactical_features(@, move),
                    !.positional_features =
                        IF i % 5 = 0
                        THEN analyze_positional_features(@, FeaturesBefore(game.line, i))
                        ELSE @]
         IN  ExtractPliesWhiteResult(after, game, i + 1)

\* the loop over game.mainline_moves() from ply i on; white moves the odd plies
ExtractPlies(acc, game, i) ==
    IF i > game.plies THEN acc
    ELSE LET move == MoveOf(game.line, i)
             mover2 == CASE game.result = "1/2-1/2" -> 1
                         [] game.result = "1-0" -> IF i % 2 = 1 THEN 2 ELSE 0
                         [] OTHER -> IF i % 2 = 1 THEN 0 ELSE 2
             after ==
                 [acc EXCEPT
                    !.opening_patterns =
                        IF i <= 15 THEN record_opening_move(@, i, move, mover2) ELSE @,
                    !.tactical_patterns = analyze_tactical_features(@, move),
                    !.positional_features =
                        IF i % 5 = 0
                        THEN analyze_positional_features(@, FeaturesBefore(game.line, i))
                        ELSE @]
         IN  ExtractPlies(after, game, i + 1)

\* the extraction with the endgame test at 20 plies and more
extract_game_patterns_from_20(acc, game) ==
    IF game.result \notin {"1-0", "0-1", "1/2-1/2"} THEN acc
    ELSE LET after == ExtractPlies(acc, game, 1)
         IN  IF game.plies >= 20
             THEN [after EXCEPT !.endgame_patterns = analyze_endgame_patterns(@, game)]
             ELSE after

\* _extract_game_patterns: a game without a result is skipped
extract_game_patterns(acc, game) ==
    IF game.result \notin {"1-0", "0-1", "1/2-1/2"} THEN acc
    ELSE LET after == ExtractPlies(acc, game, 1)
         IN  IF game.plies > 20
             THEN [after EXCEPT !.endgame_patterns = analyze_endgame_patterns(@, game)]
             ELSE after

\* analyze_games is called with max_games=30000 by main
max_games == 30000

\* _compress_tactical_patterns: frequencies in thousandths, {} when nothing
\* was counted. round(x, 3) of the float quotient is RoundDiv except that a
\* tie away from a dyadic quotient goes by the binary value
compress_tactical_patterns(tactical_patterns) ==
    LET total_moves == tactical_patterns.captures + tactical_patterns.checks
                         + tactical_patterns.development
    IN  IF total_moves = 0 THEN None
        ELSE Some([capture_frequency |-> RoundDiv(1000 * tactical_patterns.captures, total_moves),
                   check_frequency |-> RoundDiv(1000 * tactical_patterns.checks, total_moves),
                   development_frequency |->
                       RoundDiv(1000 * tactical_patterns.development, total_moves),
                   tactical_weight |-> 1500])

RECURSIVE SumCenter(_, _)
SumCenter(samples, i) ==
    IF i > Len(samples) THEN 0
    ELSE (IF samples[i].feature = "center_control" THEN samples[i].value ELSE 0)
         + SumCenter(samples, i + 1)

\* _compress_positional_patterns, in thousandths
compress_positional_patterns(samples) ==
    IF samples = <<>> THEN None
    ELSE LET n == Cardinality({i \in 1..Len(samples) : samples[i].feature = "center_control"})
             total == SumCenter(samples, 1)
             size == IF total < 0 THEN 0 - total ELSE total
         IN  Some([center_importance |-> IF n = 0 THEN 0 ELSE RoundDiv(100 * size, n),
                   castling_bonus |-> 300,
                   development_bonus |-> 200])

RECURSIVE SumCounts(_, _)
SumCounts(d, i) == IF i > Len(d) THEN 0 ELSE d[i].count + SumCounts(d, i + 1)

\* generate_compact_patterns on the accumulators
generate_compact_patterns(acc) ==
    [games_analyzed |-> SumCounts(acc.opening_patterns, 1),
     opening |-> CompressOpening(acc.opening_patterns),
     tactical |-> compress_tactical_patterns(acc.tactical_patterns),
     positional |-> compress_positional_patterns(acc.positional_features),
     endgame |-> CompressEndgame(acc.endgame_patterns)]

\* the games of the corpora
GameKinds ==
    {Game("1-0", MaxGamePlies - 1, "A", 15, "m1", "no"),
     Game("0-1", MaxGamePlies - 1, "B", 32, "m2", "no"),
     Game("1/2-1/2", 16, "A", 32, "m1", "no"),
     Game("*", MaxGamePlies - 1, "A", 15, "m1", "no"),
     Game("1-0", 20, "B", 12, "m2", "no"),
     Game("0-1", MaxGamePlies, "A", 15, "m1", "no"),
     Game("1/2-1/2", MaxGamePlies, "B", 16, "m2", "no"),
     Game("1-0", 3, "A", 32, "m1", "no"),
     Game("*", 0, "A", 32, "m1", "read"),
     Game("1-0", MaxGamePlies - 1, "A", 15, "m1", "process")}

\* a PGN file: whether open() succeeds, and the records read_game yields
PgnFile(readable, games) == [readable |-> readable, games |-> games]
PgnFiles ==
    {PgnFile(FALSE, <<>>), PgnFile(TRUE, <<>>)}
    \cup {PgnFile(TRUE, <<a>>) : a \in GameKinds}
    \cup {PgnFile(TRUE, <<a, b>>) : a, b \in GameKinds}
LastFiles ==
    {PgnFile(FALSE, <<>>), PgnFile(TRUE, <<>>),
     PgnFile(TRUE, <<Game("1-0", MaxGamePlies - 1, "A", 15, "m1", "no")>>),
     PgnFile(TRUE, <<Game("1/2-1/2", MaxGamePlies, "B", 16, "m2", "no")>>)}

\* corpora in which every game plays move 3 at ply 3 and White, who plays
\* it, wins: n games, of the two lines in turn
WinningLineSizes == {1, 9, 10, 11, 12}
WinningLineCorpus(n) ==
    <<PgnFile(TRUE, [k \in 1..n |->
          Game("1-0", 16, IF k % 2 = 1 THEN "A" ELSE "B", 32, "m1", "no")])>>

PgnCorpora ==
    {<<f>> : f \in PgnFiles}
    \cup {<<f, l>> : f \in PgnFiles, l \in LastFiles}
    \cup {WinningLineCorpus(n) : n \in WinningLineSizes}

\* PatternExtractor() and the call of analyze_games: lastArgs is pgn_files,
\* out the accumulators (patterns is what generate_compact_patterns
\* returned), move_count is games_processed, pending the file of the for
\* loop, whether it is open and the records read from it, scored the games
\* _extract_game_patterns has returned from
ExtractInit ==
    /\ build = "extractor"
    /\ env = [timing_data |-> FALSE, ai_modules |-> FALSE]
    /\ running = TRUE
    /\ board = StartBoard
    /\ tc = NoParams
    /\ debug_mode = FALSE
    /\ current_phase = "None"
    /\ opening_detected = "None"
    /\ move_count = 0
    /\ initialized = FALSE
    /\ ai = "None"
    /\ pc = "analyzing"
    /\ sleepLeft = 0
    /\ pending = [file |-> 1, open |-> FALSE, read |-> 0]
    /\ stopPending = FALSE
    /\ lastCmd = "none"
    /\ lastArgs \in PgnCorpora
    /\ out = [opening_patterns |-> <<>>,
              tactical_patterns |-> [captures |-> 0, checks |-> 0, development |-> 0],
              positional_features |-> <<>>,
              endgame_patterns |-> <<>>,
              patterns |-> None]
    /\ scored = {}
    /\ failed = FALSE
    /\ clock = 0

ExtractFrame ==
    UNCHANGED <<build, env, running, board, tc, debug_mode, current_phase, opening_detected,
                initialized, ai, sleepLeft, stopPending, lastCmd, lastArgs, clock>>

MoreFiles == pending.file <= Len(lastArgs) /\ move_count < max_games

\* for pgn_file in pgn_files: open(pgn_file) succeeds
OpenFile ==
    /\ pc = "analyzing" /\ ~pending.open /\ MoreFiles
    /\ lastArgs[pending.file].readable
    /\ pending' = [pending EXCEPT !.open = TRUE, !.read = 0]
    /\ UNCHANGED <<pc, out, move_count, scored, failed>>
    /\ ExtractFrame

\* open(pgn_file) raises: the except clause prints and continues
OpenFails ==
    /\ pc = "analyzing" /\ ~pending.open /\ MoreFiles
    /\ ~lastArgs[pending.file].readable
    /\ pending' = [pending EXCEPT !.file = @ + 1]
    /\ failed' = TRUE
    /\ UNCHANGED <<pc, out, move_count, scored>>
    /\ ExtractFrame

\* one turn of the while loop that reads a game and extracts its patterns
ReadGame ==
    /\ pc = "analyzing" /\ pending.open /\ move_count < max_games
    /\ pending.read < Len(lastArgs[pending.file].games)
    /\ LET game == lastArgs[pending.file].games[pending.read + 1]
       IN  /\ game.raises = "no"
           /\ out' = extract_game_patterns(out, game)
           /\ move_count' = move_count + 1
           /\ scored' = scored \cup {<<pending.file, pending.read + 1>>}
           /\ pending' = [pending EXCEPT !.read = @ + 1]
    /\ UNCHANGED <<pc, failed>>
    /\ ExtractFrame

\* read_game or _extract_game_patterns raises: the try statement encloses
\* the while loop, so the except clause leaves the file
GameRaises ==
    /\ pc = "analyzing" /\ pending.open /\ move_count < max_games
    /\ pending.read < Len(lastArgs[pending.file].games)
    /\ lastArgs[pending.file].games[pending.read + 1].raises # "no"
    /\ pending' = [file |-> pending.file + 1, open |-> FALSE, read |-> 0]
    /\ failed' = TRUE
    /\ UNCHANGED <<pc, out, move_count, scored>>
    /\ ExtractFrame

\* read_game returns None at the end of the file, or max_games is reached
EndOfFile ==
    /\ pc = "analyzing" /\ pending.open
    /\ ~(move_count < max_games /\ pending.read < Len(lastArgs[pending.file].games))
    /\ pending' = [file |-> pending.file + 1, open |-> FALSE, read |-> 0]
    /\ UNCHANGED <<pc, out, move_count, scored, failed>>
    /\ ExtractFrame

\* the for loop ends; analyze_games returns
AnalyzeGamesReturns ==
    /\ pc = "analyzing" /\ ~pending.open /\ ~MoreFiles
    /\ pc' = "analyzed"
    /\ UNCHANGED <<out, move_count, pending, scored, failed>>
    /\ ExtractFrame

\* patterns = extractor.generate_compact_patterns()
GeneratePatterns ==
    /\ pc = "analyzed"
    /\ out' = [out EXCEPT !.patterns = Some(generate_compact_patterns(out))]
    /\ pc' = "generated"
    /\ UNCHANGED <<move_count, pending, scored, failed>>
    /\ ExtractFrame

ExtractNext ==
    \/ OpenFile
    \/ OpenFails
    \/ ReadGame
    \/ GameRaises
    \/ EndOfFile
    \/ AnalyzeGamesReturns
    \/ GeneratePatterns

SpecExtract == ExtractInit /\ [][ExtractNext]_vars

\* the record the step from this state to the next extracts, when the step
\* is a turn of ReadGame
GameRead == lastArgs[pending.file].games[pending.read + 1]
ExtractsGame == pc = "analyzing" /\ scored' # scored
KnownResult(game) == game.result \in {"1-0", "0-1", "1/2-1/2"}

\* the count a dict holds for key, 0 when the key is absent
CountOf(d, key) == IF KeyIndex(d, key) = 0 THEN 0 ELSE d[KeyIndex(d, key)].count
Wins2Of(d, key) == IF KeyIndex(d, key) = 0 THEN 0 ELSE d[KeyIndex(d, key)].wins2
KeysOf(d) == {d[i].key : i \in 1..Len(d)}

\* C21: when a game record fails to be read or processed only that record
\* is skipped: once analyze_games has returned, every record that does not
\* fail, of every file that opens, has been processed
C21_OnlyTheBadRecordIsSkipped ==
    pc \in {"analyzed", "generated"} =>
        \A f \in 1..Len(lastArgs) : \A g \in 1..Len(lastArgs[f].games) :
            (lastArgs[f].readable /\ lastArgs[f].games[g].raises = "no") => <<f, g>> \in scored

\* C22 as stated: extracting a game with a known result and more than 20
\* plies adds exactly one to the count of the material signature of its
\* final position; a game of 20 plies or fewer changes no endgame accumulator
C22_EndgameCountPerLongGame ==
    [][ExtractsGame =>
         /\ (KnownResult(GameRead) /\ GameRead.plies > 20) =>
                CountOf(out'.endgame_patterns, GameRead.material)
                    = CountOf(out.endgame_patterns, GameRead.material) + 1
         /\ GameRead.plies <= 20 => out'.endgame_patterns = out.endgame_patterns]_vars

\* C22 amended: the count grows by exactly one, and no other signature's
\* entry changes, when the game has a known result, more than 20 plies and
\* at most 10 pieces in its final position; any other game changes no
\* endgame accumulator
C22_EndgameCountPerLongGameOfFewPieces ==
    [][ExtractsGame =>
         IF KnownResult(GameRead) /\ GameRead.plies > 20 /\ FinalPieces(GameRead) <= 10
         THEN /\ CountOf(out'.endgame_patterns, GameRead.material)
                    = CountOf(out.endgame_patterns, GameRead.material) + 1
              /\ \A i \in 1..Len(out.endgame_patterns) :
                    out.endgame_patterns[i].key # GameRead.material
                        => out'.endgame_patterns[i] = out.endgame_patterns[i]
         ELSE out'.endgame_patterns = out.endgame_patterns]_vars

\* the game read last had a known result, more than 20 plies and at most 10
\* pieces at its end, and its signature had been counted before
C22_Witness ==
    /\ pc = "analyzing" /\ pending.open /\ pending.read >= 1
    /\ <<pending.file, pending.read>> \in scored
    /\ LET game == lastArgs[pending.file].games[pending.read]
       IN  /\ KnownResult(game) /\ game.plies > 20 /\ FinalPieces(game) <= 10
           /\ CountOf(out.endgame_patterns, game.material) >= 2

\* the moves observed: the plies of the games extracted that have a result
RECURSIVE PliesOf(_)
PliesOf(games) ==
    IF games = {} THEN 0
    ELSE LET c == CHOOSE x \in games : TRUE
             game == lastArgs[c[1]].games[c[2]]
         IN  (IF KnownResult(game) THEN game.plies ELSE 0) + PliesOf(games \ {c})
MovesObserved == PliesOf(scored)

\* frequency, in thousandths, is counter / moves rounded to three decimals
IsRatio(frequency, counter, moves) ==
    LET gap == 1000 * counter - frequency * moves
    IN  2 * gap <= moves /\ 2 * (0 - gap) <= moves

\* C23: after compression the capture, check and development frequencies
\* are the global counters divided by the number of moves observed in the
\* corpus (to the three decimals kept)
C23_TacticalFrequenciesPerMove ==
    (pc = "generated" /\ out.patterns # None /\ Val(out.patterns).tactical # None) =>
        LET t == Val(Val(out.patterns).tactical)
        IN  /\ IsRatio(t.capture_frequency, out.tactical_patterns.captures, MovesObserved)
            /\ IsRatio(t.check_frequency, out.tactical_patterns.checks, MovesObserved)
            /\ IsRatio(t.development_frequency, out.tactical_patterns.development,
                       MovesObserved)

\* every game of the corpus plays move 3 at ply 3 and White, who plays it,
\* wins; the games in all
EveryGame(P(_)) ==
    \A f \in 1..Len(lastArgs) : \A g \in 1..Len(lastArgs[f].games) : P(lastArgs[f].games[g])
PlaysWinningLine(game) ==
    /\ game.raises = "no" /\ game.result = "1-0"
    /\ game.plies >= 3 /\ MoveOf(game.line, 3).san = 3
RECURSIVE GamesFrom(_)
GamesFrom(f) == IF f > Len(lastArgs) THEN 0 ELSE Len(lastArgs[f].games) + GamesFrom(f + 1)
WinningLineCorpusOf(n) ==
    /\ \A f \in 1..Len(lastArgs) : lastArgs[f].readable
    /\ EveryGame(PlaysWinningLine)
    /\ GamesFrom(1) >= n

\* the opening table holds the move of ply 3, and no entry of that ply
\* outweighs it
WinningMoveRanksFirst ==
    LET table == Val(out.patterns).opening
    IN  \E i \in 1..Len(table) :
            /\ table[i].key = <<2, 3>>
            /\ \A j \in 1..Len(table) :
                  table[j].key[1] = 2 => table[j].weight <= table[i].weight

\* C25 as stated: for a corpus of any size in which every game plays the
\* same move at ply 3 and its mover wins, the compressed opening table has
\* that move's entry, of the largest weight among the entries of that ply
C25_WinningMoveRanksFirst ==
    (pc = "generated" /\ WinningLineCorpusOf(1)) => WinningMoveRanksFirst

\* C25 amended: the same for a corpus of at least 10 games
C25_WinningMoveRanksFirstFromTenGames ==
    (pc = "generated" /\ WinningLineCorpusOf(10)) => WinningMoveRanksFirst

\* a corpus of 10 games of two lines that share the move, compressed
C25_Witness ==
    /\ pc = "generated" /\ WinningLineCorpusOf(10) /\ GamesFrom(1) = 10
    /\ \E g \in 1..10 : lastArgs[1].games[g].line = "B"
    /\ Len(Val(out.patterns).opening) > 1

\* the result of the game from the side of the mover of ply i, doubled
MoverResult2(game, i) ==
    CASE game.result = "1/2-1/2" -> 1
      [] game.result = "1-0" -> IF i % 2 = 1 THEN 2 ELSE 0
      [] game.result = "0-1" -> IF i % 2 = 1 THEN 0 ELSE 2
      [] OTHER -> 0

\* the plies of the game that add to key: the first 15, when the result is known
PliesAt(game, key) ==
    {i \in 1..Min(15, game.plies) :
        KnownResult(game) /\ key = <<i - 1, MoveOf(game.line, i).san>>}

\* C27: extracting a game with a known result adds, for each of its first
\* 15 plies, 1 to the count of the key of the ply and the mover's result
\* (1, 0 or 1/2) to its wins; later plies and games without a result change
\* no opening accumulator
C27_OpeningCountsPerPly ==
    [][ExtractsGame =>
         /\ \A key \in KeysOf(out.opening_patterns) \cup KeysOf(out'.opening_patterns) :
               LET at == PliesAt(GameRead, key)
               IN  /\ Cardinality(at) <= 1
                   /\ CountOf(out'.opening_patterns, key)
                         = CountOf(out.opening_patterns, key) + Cardinality(at)
                   /\ Wins2Of(out'.opening_patterns, key)
                         = Wins2Of(out.opening_patterns, key)
                           + (IF at = {} THEN 0
                              ELSE MoverResult2(GameRead, CHOOSE i \in at : TRUE))
         /\ \A i \in 1..Min(15, GameRead.plies) :
               KnownResult(GameRead) =>
                   <<i - 1, MoveOf(GameRead.line, i).san>> \in KeysOf(out'.opening_patterns)]_vars

\* the game read last had a known result and more than 15 plies, Black won
\* it, and a key of it had been counted before
C27_Witness ==
    /\ pc = "analyzing" /\ pending.open /\ pending.read >= 1
    /\ <<pending.file, pending.read>> \in scored
    /\ LET game == lastArgs[pending.file].games[pending.read]
       IN  /\ game.result = "0-1" /\ game.plies > 15
           /\ CountOf(out.opening_patterns, <<0, MoveOf(game.line, 1).san>>) >= 2
           /\ Wins2Of(out.opening_patterns, <<1, MoveOf(game.line, 2).san>>) >= 2

\* ---------------------------------------------------------------------
\* The tactical filter of CopycatEngineV3 on positions with a mating move
\* ---------------------------------------------------------------------

\* the moves the loop of _filter_tactical_blunders skips: those after which
\* board_copy.is_checkmate() holds, which are the moves that mate the
\* opponent (the side that just moved cannot be the one mated), and those
\* for which _loses_material_badly holds
Flagged(mates, loses) == mates \cup loses

\* what select_move meets on a position: the moves that give mate (none in
\* the starting position), the moves that put a queen or rook on an attacked
\* square, the pattern scores
MateInputs(b) ==
    {[mates |-> ms, loses |-> ls, unsafe |-> Flagged(ms, ls), score |-> sc] :
        ms \in IF b = StartBoard THEN {{}} ELSE SUBSET SeqToSet(LegalMoves(b)),
        ls \in {x \in SUBSET SeqToSet(LegalMoves(b)) : Cardinality(x) <= 1},
        sc \in [SeqToSet(LegalMoves(b)) -> {0, 1}]}

\* CopycatEngineV3 called on a position with several legal moves
MateInit ==
    /\ build = "v3"
    /\ env = [timing_data |-> FALSE, ai_modules |-> FALSE]
    /\ running = TRUE
    /\ board \in SelectBoards
    /\ tc = NoParams
    /\ debug_mode = FALSE
    /\ current_phase = "middlegame"
    /\ opening_detected = "None"
    /\ move_count = 0
    /\ initialized = FALSE
    /\ ai = "None"
    /\ pc = "idle"
    /\ sleepLeft = 0
    /\ pending = "None"
    /\ stopPending = FALSE
    /\ lastCmd = "none"
    /\ lastArgs \in MateInputs(board)
    /\ out = <<>>
    /\ scored = {}
    /\ failed = FALSE
    /\ clock = 0

MateNext == FilterAndSelect

SpecMate == MateInit /\ [][MateNext]_vars

\* C30: the filter never removes a move that checkmates the opponent: every
\* legal mating move is among the moves passed on to pattern scoring
C30_MatingMovesAreScored ==
    pc = "selected" => lastArgs.mates \subseteq scored

\* ---------------------------------------------------------------------
\* CopycatEngineV3.select_move and the objects it works on
\* ---------------------------------------------------------------------

\* the objects of a call: names binds the variables board and board_copy to
\* board objects (0: unbound), objs holds the objects, patterns is
\* self.patterns with its four sections. A section is a function from its
\* keys, the opening book a sequence of entries
Heap(b, patterns) ==
    [names |-> [board |-> 1, board_copy |-> 0],
     objs |-> [o \in {1, 2} |-> b],
     patterns |-> patterns]
BoardOf(h) == h.objs[h.names.board]

\* board_copy = board without .copy(): a second name for the same object
BoardAlias(h) == [h EXCEPT !.names.board_copy = h.names.board]

\* board_copy = board.copy(): a new object with the same position
BoardCopy(h) == [h EXCEPT !.names.board_copy = 2, !.objs[2] = h.objs[h.names.board]]

\* board_copy.push(move)
PushCopy(h, move) == [h EXCEPT !.objs[h.names.board_copy] = Push(@, move)]

\* d.get(key, default), d[key] for a key that is in d
DictGet(d, key, default) == IF key \in DOMAIN d THEN d[key] ELSE default

\* len(board.piece_map()): the kings count
PieceMapSize(b) == PieceCount(b) + 2

\* what the scorers ask the rules engine about a move: the moves of a
\* position are, in generation order, a developing move to the centre, a
\* capture of a knight with check, a castling move, a king move
FeaturesOf(b, move) ==
    LET at == {k \in 1..Len(LegalMoves(b)) : LegalMoves(b)[k] = move}
        i == IF at = {} THEN 0 ELSE CHOOSE k \in at : TRUE
    IN  [develops |-> i = 1, central |-> i = 1, captured |-> IF i = 2 THEN 2 ELSE 0,
         check |-> i = 2, castles |-> i = 3, king |-> i = 4 \/ b.base = "fenEnd"]

\* the loop of _filter_tactical_blunders from move i on: each move is
\* pushed on a copy of the board
RECURSIVE FilterLoop(_, _, _, _, _)
FilterLoop(h, moves, unsafe, i, safe_moves) ==
    IF i > Len(moves)
    THEN [h |-> h, moves |-> IF safe_moves # <<>> THEN safe_moves ELSE moves]
    ELSE FilterLoop(PushCopy(BoardCopy(h), moves[i]), moves, unsafe, i + 1,
                    IF moves[i] \in unsafe THEN safe_moves ELSE Append(safe_moves, moves[i]))

\* _get_opening_score, in ten-thousandths: the weights are in thousandths
GetOpeningScore(h, move) ==
    LET pattern_key == <<Len(BoardOf(h).stack), move>>
        at == KeyIndex(h.patterns.opening, pattern_key)
    IN  IF at # 0 THEN h.patterns.opening[at].weight ELSE 0

\* _get_tactical_score: the score, and the heap after the push on a copy
GetTacticalScore(h, move) ==
    LET f == FeaturesOf(BoardOf(h), move)
        after == PushCopy(BoardCopy(h), move)
    IN  [h |-> after,
         score |-> 2000 * f.captured + (IF f.check THEN 5000 ELSE 0)
                   + (IF f.develops
                      THEN 10 * DictGet(h.patterns.positional, "development_bonus", 200)
                      ELSE 0)]

\* _get_positional_score
GetPositionalScore(h, move) ==
    LET f == FeaturesOf(BoardOf(h), move)
    IN  (IF f.central THEN 10 * DictGet(h.patterns.positional, "center_importance", 100) ELSE 0)
        + (IF f.castles THEN 10 * DictGet(h.patterns.positional, "castling_bonus", 300) ELSE 0)

\* _get_endgame_score
GetEndgameScore(h, move) == IF FeaturesOf(BoardOf(h), move).king THEN 1000 ELSE 0

\* the loop of _score_by_patterns from move i on; scores maps the moves
\* scored so far
RECURSIVE ScoreLoop(_, _, _, _)
ScoreLoop(h, moves, i, scores) ==
    IF i > Len(moves) THEN [h |-> h, scores |-> scores]
    ELSE LET move == moves[i]
             t == GetTacticalScore(h, move)
             score == (IF Len(BoardOf(h).stack) < 15 THEN GetOpeningScore(h, move) ELSE 0)
                      + t.score
                      + GetPositionalScore(t.h, move)
                      + (IF PieceMapSize(BoardOf(t.h)) <= 10
                         THEN GetEndgameScore(t.h, move) ELSE 0)
         IN  ScoreLoop(t.h, moves, i + 1, scores @@ (move :> score))

\* select_move on the heap: the heap it leaves, the move, the moves scored,
\* the exception raised
SelectOnHeap(h, unsafe, pick) ==
    LET legal_moves == LegalMoves(BoardOf(h))
        f == FilterLoop(h, legal_moves, unsafe, 1, <<>>)
        s == ScoreLoop(f.h, f.moves, 1, <<>>)
    IN  IF legal_moves = <<>>
        THEN [h |-> h, move |-> "None", scored |-> {}, counted |-> FALSE, exc |-> "ValueError"]
        ELSE IF Len(legal_moves) = 1
        THEN [h |-> h, move |-> legal_moves[1], scored |-> {}, counted |-> FALSE,
              exc |-> "none"]
        ELSE [h |-> s.h, move |-> SelectFinalMove(f.moves, s.scores, pick),
              scored |-> SeqToSet(f.moves), counted |-> TRUE, exc |-> "none"]

\* Pattern Stores: the sections as the extractor writes them, full or empty
PatternStores ==
    {[opening |-> <<[key |-> <<0, "e2e4">>, frequency |-> 1000, weight |-> 1500],
                    [key |-> <<1, "c7c6">>, frequency |-> 40, weight |-> 45]>>,
      tactical |-> ("capture_frequency" :> 200 @@ "check_frequency" :> 100
                    @@ "development_frequency" :> 700 @@ "tactical_weight" :> 1500),
      positional |-> ("center_importance" :> 50 @@ "castling_bonus" :> 300
                      @@ "development_bonus" :> 200),
      endgame |-> <<[key |-> "m1", weight |-> 500]>>],
     [opening |-> <<>>, tactical |-> <<>>, positional |-> <<>>, endgame |-> <<>>]}

FrameBoards == V3Boards \cup {WideBoard}

\* CopycatEngineV3(): env is self.patterns; a host that calls select_move
\* and plays the move, as test_engine does
FrameInit ==
    /\ build = "v3"
    /\ env \in PatternStores
    /\ running = TRUE
    /\ board \in FrameBoards
    /\ tc = NoParams
    /\ debug_mode = FALSE
    /\ current_phase = "None"
    /\ opening_detected = "None"
    /\ move_count = 0
    /\ initialized = FALSE
    /\ ai = "None"
    /\ pc = "idle"
    /\ sleepLeft = 0
    /\ pending = "None"
    /\ stopPending = FALSE
    /\ lastCmd = "none"
    /\ lastArgs = <<>>
    /\ out = <<>>
    /\ scored = {}
    /\ failed = FALSE
    /\ clock = 0

\* engine.select_move(board): the position and the store are what the call
\* leaves in the objects it was given
FrameSelect ==
    /\ pc = "idle" /\ running
    /\ \E unsafe \in SUBSET SeqToSet(LegalMoves(board)),
          pick \in SeqToSet(LegalMoves(board)) \cup {"None"} :
         LET r == SelectOnHeap(Heap(board, env), unsafe, pick)
         IN  /\ board' = r.h.objs[1]
             /\ env' = r.h.patterns
             /\ pending' = r.move
             /\ scored' = r.scored
             /\ move_count' = (IF r.counted THEN move_count + 1 ELSE move_count)
             /\ running' = (r.exc = "none")
             /\ pc' = (IF r.exc = "none" THEN "selected" ELSE "idle")
    /\ UNCHANGED <<build, tc, debug_mode, current_phase, opening_detected, initialized, ai,
                   sleepLeft, stopPending, lastCmd, lastArgs, out, failed, clock>>

\* board.push(move) by the host
FramePush ==
    /\ pc = "selected" /\ Len(board.stack) < MaxPly
    /\ board' = Push(board, pending)
    /\ pc' = "idle"
    /\ UNCHANGED <<build, env, running, tc, debug_mode, current_phase, opening_detected,
                   move_count, initialized, ai, sleepLeft, pending, stopPending, lastCmd,
                   lastArgs, out, scored, failed, clock>>

FrameNext == FrameSelect \/ FramePush

SpecFrame == FrameInit /\ [][FrameNext]_vars

\* C24: every move-selection call leaves the Pattern Store, all four
\* sections, and the position it was passed as they were
C24_SelectMoveLeavesStoreAndPosition ==
    [][(pc = "idle" /\ (pc' = "selected" \/ ~running')) => (env' = env /\ board' = board)]_vars

\* a later call of a sequence has filtered and scored several moves, on a
\* store with entries to read
C24_Witness ==
    /\ pc = "selected"
    /\ board.stack # <<>>
    /\ move_count >= 2
    /\ Cardinality(scored) >= 2
    /\ env.opening # <<>>

\* ---------------------------------------------------------------------
\* The position command on move lists with a bad token in the middle
\* ---------------------------------------------------------------------

\* move lists: legal throughout, with a token that is no move, with a move
\* that is illegal where it is played, each followed or not by a move that
\* would be legal
WideMoveLists ==
    MoveLists
    \cup {<<"e2e4", "e7e5", "d2d4">>, <<"e7e5", "e2e4">>, <<"e2e4", "e2e4", "e7e5">>,
          <<"e2e4", "zzzz", "e7e5">>, <<"zzzz", "e2e4">>}
WidePositionArgs ==
    {pb \o <<"moves">> \o ms : pb \in {<<"startpos">>, FullFen("fenMid")}, ms \in WideMoveLists}

\* the three controllers with a handler for position, after any position
PositionInit ==
    /\ build \in {"core", "root", "v07"}
    /\ env = [timing_data |-> FALSE, ai_modules |-> FALSE]
    /\ running = TRUE
    /\ board \in {StartBoard, Push(StartBoard, "d2d4")}
    /\ tc = NoParams
    /\ debug_mode \in BOOLEAN
    /\ current_phase = "opening"
    /\ opening_detected = "None"
    /\ move_count = 0
    /\ initialized = FALSE
    /\ ai = "None"
    /\ pc = "idle"
    /\ sleepLeft = 0
    /\ pending = "None"
    /\ stopPending = FALSE
    /\ lastCmd = "none"
    /\ lastArgs = <<>>
    /\ out = <<>>
    /\ scored = {}
    /\ failed = FALSE
    /\ clock = 0

PositionNext == \E args \in WidePositionArgs : CmdPosition(args)

SpecPosition == PositionInit /\ [][PositionNext]_vars

\* C26: after a position command with a move list the board is the base
\* position with the listed moves applied in order up to, and not
\* including, the first token that is malformed or illegal where it is
\* played; no later move is applied
C26_MovesAppliedUpToFirstBadToken ==
    (lastCmd = "position" /\ HasValidBase(lastArgs))
        => board = AfterLegalPrefix(NamedBase(lastArgs), MoveTokensOf(lastArgs))

\* the same of CopycatUCI and the v0.7 controller alone
PositionBreaksAtBadToken ==
    (build \in {"core", "v07"} /\ lastCmd = "position" /\ HasValidBase(lastArgs))
        => board = AfterLegalPrefix(NamedBase(lastArgs), MoveTokensOf(lastArgs))

\* ----------------------------------------------------------------------
\* One go after another: what an earlier go leaves for the next
\* ----------------------------------------------------------------------
\* a go command that names every time-control parameter
FullGo ==
    <<"wtime", "3000", "btime", "3000", "winc", "100", "binc", "100", "movestogo", "2",
      "movetime", "900", "infinite">>

\* the go commands that follow it
WideGoArgs ==
    {<<>>, <<"infinite">>, <<"movetime", "1000">>, <<"movetime", "abc">>,
     <<"wtime", "3000", "btime", "3000">>, <<"winc", "100", "binc", "100">>,
     <<"movestogo", "2">>, <<"wtime", "3000", "btime", "3000", "movestogo", "0">>,
     <<"ponder">>, <<"depth", "2">>, <<"searchmoves", "e2e4">>, FullGo}

\* the controller after `go` with FullGo was handled and answered:
\* CopycatUCI holds every parameter of it; UCIEngine holds the six it knows
\* when the engine was initialised, and none when the go ended at the
\* initialisation check
GoInit ==
    /\ build \in {"core", "root"}
    /\ env \in [timing_data : BOOLEAN, ai_modules : {FALSE}]
    /\ (build # "core" => ~env.timing_data)
    /\ running = TRUE
    /\ board \in {StartBoard, Push(StartBoard, "e2e4")}
    /\ debug_mode = FALSE
    /\ initialized \in (IF build = "root" THEN BOOLEAN ELSE {FALSE})
    /\ ai = (IF initialized THEN "model" ELSE "None")
    /\ tc = (IF build = "core" THEN ParseGoFrom(board, FullGo, 1, NoParams).p
             ELSE IF initialized THEN ParseGoRoot(FullGo, 1, NoParams).p
             ELSE NoParams)
    /\ current_phase = (IF build = "core" THEN EngineAfter(board, "None").current_phase
                        ELSE "opening")
    /\ opening_detected = (IF build = "core" THEN EngineAfter(board, "None").opening_detected
                           ELSE "None")
    /\ move_count = (IF build = "core" THEN EngineAfter(board, "None").move_count ELSE 0)
    /\ pc = "idle"
    /\ sleepLeft = 0
    /\ pending = "None"
    /\ stopPending = FALSE
    /\ lastCmd = "go"
    /\ lastArgs = FullGo
    /\ out = <<>>
    /\ scored = {}
    /\ failed = FALSE
    /\ clock = 0

GoNext ==
    \/ \E args \in WideGoArgs : GoCore(args)
    \/ \E args \in WideGoArgs : GoRoot(args)
    \/ SleepTick
    \/ GoReply

SpecGo == GoInit /\ [][GoNext]_vars

\* the words of the last command
Named == SeqToSet(lastArgs)

\* the last go got as far as reading its arguments: handle_go of UCIEngine
\* returns before that while the engine is not initialised
ArgumentsRead ==
    /\ lastCmd = "go"
    /\ build \in {"core", "root"}
    /\ (build = "root" => (initialized /\ ai # "None"))

\* the time-control parameters each controller keeps in self
TimeKeys == {"wtime", "btime", "winc", "binc", "movestogo", "movetime"}

ParamOf(p, key) ==
    CASE key = "wtime" -> p.wtime
      [] key = "btime" -> p.btime
      [] key = "winc" -> p.winc
      [] key = "binc" -> p.binc
      [] key = "movestogo" -> p.movestogo
      [] OTHER -> p.movetime

Components ==
    {"opening_pattern", "piece_preference", "square_preference", "decisiveness",
     "positional", "tactical"}

Phases == {"opening", "middlegame", "endgame"}

Weights(op, pp, sp, de, po, ta) ==
    [opening_pattern |-> op, piece_preference |-> pp, square_preference |-> sp,
     decisiveness |-> de, positional |-> po, tactical |-> ta]

\* self.phase_weights as __init__ writes it
DefaultPhaseWeights ==
    [opening |-> Weights(300, 200, 200, 0, 200, 100),
     middlegame |-> Weights(0, 250, 250, 150, 150, 200),
     endgame |-> Weights(0, 250, 200, 0, 300, 250)]

\* the analysis file: found or not, and the values of the keys
\* _update_parameters_from_analysis looks for (None: the key is absent)
AnalysisFiles ==
    [found : BOOLEAN,
     opening : {None, Some(400), Some(500)},
     endgame : {None, Some(300), Some(400)},
     aggressiveness : {None, Some(0 - 250), Some(0), Some(500)},
     decisiveness : {None, Some(0), Some(1000)}]

\* `if self.analysis_data:` an empty dictionary, or none, updates nothing
HasData(data) ==
    /\ data.found
    /\ \/ ~IsNone(data.opening)
       \/ ~IsNone(data.endgame)
       \/ ~IsNone(data.aggressiveness)
       \/ ~IsNone(data.decisiveness)

\* _update_parameters_from_analysis: three single weights are overwritten
update_parameters_from_analysis(weights, data) ==
    LET w1 == IF ~IsNone(data.opening) /\ Val(data.opening) > 400
              THEN [weights EXCEPT !.opening.opening_pattern = 500] ELSE weights
        w2 == IF ~IsNone(data.endgame) /\ Val(data.endgame) > 300
              THEN [w1 EXCEPT !.endgame.piece_preference = 600] ELSE w1
    IN  IF ~IsNone(data.aggressiveness)
        THEN [w2 EXCEPT !.middlegame.decisiveness =
                            (200 * (1000 + Val(data.aggressiveness))) \div 1000]
        ELSE w2

\* self.randomization_factor after the update
RandomizationFactor(data) ==
    IF IsNone(data.decisiveness) THEN 50
    ELSE Max(10, (50 * (1000 - Val(data.decisiveness))) \div 1000)

\* weighted_score of score_candidate
WeightedScore(weights, scores) ==
    (weights.piece_preference * scores.piece_preference
     + weights.square_preference * scores.square_preference
     + weights.opening_pattern * scores.opening_pattern
     + weights.decisiveness * scores.decisiveness
     + weights.positional * scores.positional
     + weights.tactical * scores.tactical) \div 1000

\* the component scores of a candidate, each at an end of [0, 1]
ComponentScores == [Components -> {0, 1000}]

\* __init__ up to the default tables; env is the analysis file
WeightsInit ==
    /\ build = "core"
    /\ env \in AnalysisFiles
    /\ running = TRUE
    /\ board = StartBoard
    /\ tc = NoParams
    /\ debug_mode = FALSE
    /\ current_phase = "opening"
    /\ opening_detected = "None"
    /\ move_count = 0
    /\ initialized = FALSE
    /\ ai = "None"
    /\ pc = "defaults"
    /\ sleepLeft = 50
    /\ pending = "None"
    /\ stopPending = FALSE
    /\ lastCmd = "none"
    /\ lastArgs = <<>>
    /\ out = DefaultPhaseWeights
    /\ scored = {}
    /\ failed = FALSE
    /\ clock = 0

\* the rest of __init__: the analysis data is loaded and, when there is
\* any, the parameters are updated; out is self.phase_weights, sleepLeft
\* is self.randomization_factor
LoadAndUpdate ==
    /\ pc = "defaults"
    /\ pc' = "ready"
    /\ out' = (IF HasData(env) THEN update_parameters_from_analysis(out, env) ELSE out)
    /\ sleepLeft' = (IF HasData(env) THEN RandomizationFactor(env) ELSE sleepLeft)
    /\ UNCHANGED <<build, env, running, board, tc, debug_mode, current_phase, opening_detected,
                   move_count, initialized, ai, pending, stopPending, lastCmd, lastArgs,
                   scored, failed, clock>>

\* score_candidate for one candidate in one phase: clock is weighted_score
ScoreOneCandidate ==
    /\ pc = "ready"
    /\ \E phase \in Phases, scores \in ComponentScores :
         /\ current_phase' = phase
         /\ lastArgs' = scores
         /\ clock' = WeightedScore(out[phase], scores)
    /\ lastCmd' = "score_candidate"
    /\ UNCHANGED <<build, env, running, board, tc, debug_mode, opening_detected, move_count,
                   initialized, ai, pc, sleepLeft, pending, stopPending, out, scored, failed>>

WeightsNext == LoadAndUpdate \/ ScoreOneCandidate

SpecWeights == WeightsInit /\ [][WeightsNext]_vars

SumOfWeights(w) ==
    w.opening_pattern + w.piece_preference + w.square_preference + w.decisiveness
    + w.positional + w.tactical

\* C29: in every phase the six weights of self.phase_weights sum to 1, with
\* the default tables and after _update_parameters_from_analysis
C29_PhaseWeightsSumToOne ==
    \A phase \in Phases : SumOfWeights(out[phase]) = 1000

\* the tables as __init__ writes them do sum to 1
DefaultWeightsSumToOne ==
    pc = "defaults" => \A phase \in Phases : SumOfWeights(out[phase]) = 1000

\* an updated table lets a candidate's weighted score pass 1
WeightedScoreAboveOne ==
    /\ lastCmd = "score_candidate"
    /\ clock > 1000

====
